--------------------------- MODULE DialogsProofs ----------------------------
(* Proofs about LNURL-auth and the login dialog, for any sessions, linking   *)
(* keys and requests in flight; and, with those about the payment dialogs in *)
(* ZapPaymentProofs, about all the dialogs that MCDialogs checks.            *)
EXTENDS MCDialogs, TLAPS

ZapPay == INSTANCE ZapPaymentProofs

USE LnurlAuthAssumption

-----------------------------------------------------------------------------
(* Types.  That a granted key is a signed one rests on the signature that a  *)
(* callback carries from its arrival to its end; that a status reply has a   *)
(* status, on the session a request is about being there (RequestOK).        *)

\* What holds of a request in flight at every await.
RequestOK(r) ==
  \/ r = Idle
  \/ /\ r \in Request
     /\ r.pc = "bind" => r.key # None /\ r.valid /\ r.kind # "status"
     /\ r.valid => [k1 |-> r.k1, key |-> r.key] \in signed
     /\ status[r.k1] # "none"

\* Requests in flight are in order, each in its slot.
RequestsOK ==
  /\ h \in [Requests -> Request \cup {Idle}]
  /\ \A t \in Requests : RequestOK(h[t])

TypeInv == TypeOK /\ RequestsOK

\* What no step takes back: a session that is there, and a signature presented.
Kept ==
  /\ \A k \in Sessions : status[k] # "none" => status'[k] # "none"
  /\ signed \subseteq signed'

\* At first there is no session, no request and nobody logged in.
LEMMA InitTyped == Init => TypeInv
<1> SUFFICES ASSUME Init PROVE TypeInv
  OBVIOUS
<1> USE DEF Init, ServerInit
<1>1. \A t \in Requests : h[t] = Idle
  OBVIOUS
<1>2. RequestsOK
  BY <1>1 DEF RequestsOK, RequestOK
<1>3. ServerTypeOK
  BY <1>1 DEF ServerTypeOK, Idle, None
<1>4. TypeOK
  BY <1>3 DEF TypeOK, None
<1> QED BY <1>2, <1>4 DEF TypeInv

\* A request at work is about a session that is there.
LEMMA AtWork ==
  ASSUME TypeInv, NEW t \in Requests, h[t].pc # "idle"
  PROVE  /\ h[t] \in Request
         /\ h[t].k1 \in Sessions
         /\ h[t].pc = "bind" => h[t].key # None /\ h[t].valid /\ h[t].kind # "status"
         /\ h[t].valid => [k1 |-> h[t].k1, key |-> h[t].key] \in signed
         /\ status[h[t].k1] # "none"
         /\ h[t] # Idle
<1>1. h[t] # Idle
  BY DEF Idle
<1> QED BY <1>1 DEF TypeInv, RequestsOK, RequestOK, Request

\* A request that is in order stays so when nothing is taken back.
LEMMA KeptOK ==
  ASSUME Kept, NEW r, RequestOK(r)
  PROVE  RequestOK(r)'
BY DEF Kept, RequestOK, Request

\* It is enough that the request a step is about is in order afterwards.
LEMMA StepOK ==
  ASSUME RequestsOK, Kept, NEW t \in Requests, NEW r,
         h' = [h EXCEPT ![t] = r], RequestOK(r)'
  PROVE  RequestsOK'
<1>1. r \in Request \cup {Idle}
  BY DEF RequestOK
<1>2. h' \in [Requests -> Request \cup {Idle}]
  BY <1>1 DEF RequestsOK
<1>3. ASSUME NEW u \in Requests PROVE RequestOK(h[u])'
  <2>1. CASE u = t
    <3>1. h'[u] = r
      BY <2>1 DEF RequestsOK
    <3> QED BY <3>1
  <2>2. CASE u # t
    <3>1. h'[u] = h[u]
      BY <2>2 DEF RequestsOK
    <3>2. RequestOK(h[u])
      BY DEF RequestsOK
    <3> QED BY <3>1, <3>2 DEF RequestOK, Kept, Request
  <2> QED BY <2>1, <2>2
<1> QED BY <1>2, <1>3 DEF RequestsOK

\* A request may end.
LEMMA EndOK ==
  ASSUME RequestsOK, Kept, NEW t \in Requests, End(t)
  PROVE  RequestsOK'
BY StepOK DEF End, RequestOK

\* A request may go on to another await.
LEMMA AwaitOK ==
  ASSUME TypeInv, Kept, NEW t \in Requests, h[t].pc # "idle",
         NEW pc \in {"look", "expire", "bind", "reply"},
         pc = "bind" => h[t].key # None /\ h[t].valid /\ h[t].kind # "status",
         h' = [h EXCEPT ![t].pc = pc]
  PROVE  RequestsOK' /\ \A u \in Requests : h'[u].kind = h[u].kind
<1> PICK r : r = [h[t] EXCEPT !.pc = pc]
  OBVIOUS
<1>1. h' = [h EXCEPT ![t] = r]
  OBVIOUS
<1>2. r \in Request /\ r.pc = pc /\ r.key = h[t].key /\ r.valid = h[t].valid
      /\ r.k1 = h[t].k1 /\ r.kind = h[t].kind
  BY AtWork DEF Request
<1>3. RequestOK(r)'
  BY <1>2, AtWork DEF RequestOK, Kept
<1>4. RequestsOK'
  BY <1>1, <1>3, StepOK DEF TypeInv
<1>5. \A u \in Requests : h'[u].kind = h[u].kind
  BY <1>1, <1>2 DEF TypeInv, RequestsOK
<1> QED BY <1>4, <1>5

\* It may be given an answer about a session that is there, or an error.
LEMMA ReplyOK ==
  ASSUME TypeInv, Kept, NEW t \in Requests, h[t].pc # "idle",
         NEW says,
         \/ says = NoAnswer
         \/ says \in [status : {"PENDING", "VERIFIED", "EXPIRED"}, key : Keys \cup {None}],
         h' = [h EXCEPT ![t].pc = "reply", ![t].says = says]
  PROVE  RequestsOK' /\ \A u \in Requests : h'[u].kind = h[u].kind
<1> PICK r : r = [h[t] EXCEPT !.pc = "reply", !.says = says]
  OBVIOUS
<1>1. h' = [h EXCEPT ![t] = r]
  BY DEF TypeInv, RequestsOK
<1>2. r \in Request /\ r.pc = "reply" /\ r.key = h[t].key /\ r.valid = h[t].valid
      /\ r.k1 = h[t].k1 /\ r.kind = h[t].kind
  <2>1. h[t] \in Request
    BY AtWork
  <2>2. says \in [status : {"PENDING", "VERIFIED", "EXPIRED"}, key : Keys \cup {None}] \cup {NoAnswer}
    OBVIOUS
  <2>3. r = [kind |-> h[t].kind, pc |-> "reply", k1 |-> h[t].k1, key |-> h[t].key,
             valid |-> h[t].valid, says |-> says]
    BY <2>1 DEF Request
  <2> QED BY <2>1, <2>2, <2>3 DEF Request
<1>3. RequestOK(r)'
  BY <1>2, AtWork DEF RequestOK, Kept
<1>4. RequestsOK'
  BY <1>1, <1>3, StepOK DEF TypeInv
<1>5. \A u \in Requests : h'[u].kind = h[u].kind
  BY <1>1, <1>2 DEF TypeInv, RequestsOK
<1> QED BY <1>4, <1>5

\* What a step that serves a request keeps: the types, what no step takes back,
\* and the polls being polls.
ServerStep ==
  /\ ServerTypeOK'
  /\ RequestsOK'
  /\ Kept
  /\ \A t \in Requests : h[t].kind = "status" => h'[t].kind = "status"

\* The tables of the server, without the requests.
TablesOK ==
  /\ status \in [Sessions -> {"none", "PENDING", "VERIFIED", "EXPIRED"}]
  /\ key \in [Sessions -> Keys \cup {None}]
  /\ \A k \in Sessions : status[k] = "VERIFIED" => key[k] # None
  /\ due \subseteq Sessions
  /\ signed \subseteq [k1 : Sessions, key : Keys]
  /\ granted \subseteq signed
  /\ rivals \subseteq Sessions

\* The tables and the requests are all there is to the server's types.
LEMMA ServerParts ==
  ASSUME TablesOK', RequestsOK'
  PROVE  ServerTypeOK'
<1>1. ASSUME NEW t \in Requests, h'[t].pc = "bind" PROVE h'[t].key # None /\ h'[t].valid
  <2>1. h'[t] # Idle
    BY <1>1 DEF Idle
  <2>2. RequestOK(h[t])'
    BY DEF RequestsOK
  <2> QED BY <1>1, <2>1, <2>2 DEF RequestOK, Idle
<1>2. h' \in [Requests -> Request \cup {Idle}]'
  BY DEF RequestsOK
<1> QED BY <1>1, <1>2 DEF TablesOK, ServerTypeOK

\* And the other way round.
LEMMA TypedTables == TypeInv => TablesOK
BY DEF TypeInv, TypeOK, ServerTypeOK, TablesOK

\* A callback may end; a poll is answered first.
LEMMA EndStep ==
  ASSUME TypeInv, Kept, NEW t \in Requests, h[t].kind # "status", End(t), TablesOK'
  PROVE  ServerStep
<1>1. RequestsOK'
  BY EndOK DEF TypeInv
<1>2. \A u \in Requests : h[u].kind = "status" => h'[u].kind = "status"
  BY DEF End, TypeInv, RequestsOK
<1> QED BY <1>1, <1>2, ServerParts DEF ServerStep

\* A look at the session leaves the types as they are.
LEMMA LookTyped ==
  ASSUME TypeInv, NEW t \in Requests, Look(t)
  PROVE  ServerStep
<1> DEFINE k == h[t].k1
<1>0. /\ h[t] \in Request /\ k \in Sessions /\ h[t].pc # "idle" /\ status[k] # "none"
      /\ h[t].valid => [k1 |-> k, key |-> h[t].key] \in signed
  BY AtWork DEF Look
<1>1. Kept
  BY DEF Look, Kept
<1>2. TablesOK
  BY TypedTables
<1>3. CASE h' = [h EXCEPT ![t].pc = "expire"] /\ UNCHANGED <<granted, rivals>>
  <2>1. TablesOK'
    BY <1>2, <1>3 DEF TablesOK, Look
  <2> QED BY <1>0, <1>1, <1>3, <2>1, AwaitOK, ServerParts DEF ServerStep
<1>4. CASE Say(t, k, status[k]) /\ UNCHANGED <<granted, rivals>>
  <2>1. TablesOK'
    BY <1>2, <1>4 DEF TablesOK, Look
  <2>2. Answer(k, status[k])
          \in [status : {"PENDING", "VERIFIED", "EXPIRED"}, key : Keys \cup {None}]
    BY <1>0, <1>2 DEF Answer, TablesOK
  <2>3. PICK says : says = Answer(k, status[k])
    OBVIOUS
  <2>4. RequestsOK' /\ \A u \in Requests : h'[u].kind = h[u].kind
    BY <1>0, <1>1, <1>4, <2>2, <2>3, ReplyOK DEF Say
  <2> QED BY <1>1, <2>1, <2>4, ServerParts DEF ServerStep
<1>5. CASE /\ MayBind(t, k)
           /\ h[t].kind # "status"
           /\ h' = [h EXCEPT ![t].pc = "bind"]
           /\ rivals' = IF Rival(t, k) THEN rivals \cup {k} ELSE rivals
           /\ UNCHANGED granted
  <2>1. TablesOK'
    BY <1>0, <1>2, <1>5 DEF TablesOK, Look
  <2>2. h[t].key # None /\ h[t].valid
    BY <1>0, <1>2, <1>5 DEF MayBind, TablesOK, None
  <2> QED BY <1>0, <1>1, <1>5, <2>1, <2>2, AwaitOK, ServerParts DEF ServerStep
<1>6. CASE /\ h[t].kind # "status"
           /\ End(t)
           /\ granted' = IF IsRepeat(t, k) THEN granted \cup {[k1 |-> k, key |-> h[t].key]}
                         ELSE granted
           /\ UNCHANGED rivals
  <2>1. TablesOK'
    BY <1>0, <1>2, <1>6 DEF TablesOK, Look, IsRepeat
  <2> QED BY <1>1, <1>6, <2>1, EndStep
<1> QED BY <1>3, <1>4, <1>5, <1>6 DEF Look

\* An update to EXPIRED leaves the types as they are.
LEMMA ExpireTyped ==
  ASSUME TypeInv, NEW t \in Requests, Expire(t)
  PROVE  ServerStep
<1> DEFINE k == h[t].k1
<1>0. h[t] \in Request /\ k \in Sessions /\ h[t].pc # "idle"
  BY AtWork DEF Expire
<1>1. TablesOK
  BY TypedTables
<1>2. Kept /\ TablesOK'
  BY <1>0, <1>1 DEF Expire, Kept, TablesOK
<1>3. CASE Say(t, k, "EXPIRED")
  <2>1. PICK says : says = Answer(k, "EXPIRED")
    OBVIOUS
  <2>2. says \in [status : {"PENDING", "VERIFIED", "EXPIRED"}, key : Keys \cup {None}]
    BY <1>0, <1>1, <2>1 DEF Answer, TablesOK
  <2>3. RequestsOK' /\ \A u \in Requests : h'[u].kind = h[u].kind
    BY <1>0, <1>2, <1>3, <2>1, <2>2, ReplyOK DEF Say
  <2> QED BY <1>2, <2>3, ServerParts DEF ServerStep
<1>4. CASE h[t].kind # "status" /\ End(t)
  BY <1>2, <1>4, EndStep
<1> QED BY <1>3, <1>4 DEF Expire

\* The update to VERIFIED binds a signed key.
LEMMA BindTyped ==
  ASSUME TypeInv, NEW t \in Requests, Bind(t)
  PROVE  ServerStep
<1> DEFINE k == h[t].k1
<1>0. /\ h[t] \in Request /\ k \in Sessions /\ h[t].key # None /\ h[t].kind # "status"
      /\ [k1 |-> k, key |-> h[t].key] \in signed
  BY AtWork DEF Bind
<1>1. TablesOK
  BY TypedTables
<1>2. Kept
  BY <1>0, <1>1 DEF Bind, Kept, TablesOK
<1>3. TablesOK'
  BY <1>0, <1>1 DEF Bind, TablesOK, Request
<1> QED BY <1>0, <1>2, <1>3, EndStep DEF Bind

\* A database call that throws, its update done or not, leaves the types as they are.
LEMMA FailureTyped ==
  ASSUME TypeInv, NEW t \in Requests, DatabaseFails(t)
  PROVE  ServerStep
<1> DEFINE k == h[t].k1
<1>0. /\ h[t] \in Request /\ k \in Sessions /\ h[t].pc # "idle"
      /\ h[t].pc = "bind" => h[t].key # None
  BY AtWork DEF DatabaseFails
<1>1. TablesOK
  BY TypedTables
<1>2. Kept /\ TablesOK'
  <2>1. CASE UNCHANGED <<status, key>>
    BY <1>0, <1>1, <2>1 DEF DatabaseFails, Kept, TablesOK
  <2>2. CASE status' = [status EXCEPT ![k] = "EXPIRED"] /\ UNCHANGED key
    BY <1>0, <1>1, <2>2 DEF DatabaseFails, Kept, TablesOK
  <2>3. CASE /\ h[t].pc = "bind"
             /\ status' = [status EXCEPT ![k] = "VERIFIED"]
             /\ key' = [key EXCEPT ![k] = h[t].key]
    <3>1. h[t].key \in Keys /\ h[t].key # None
      BY <1>0, <2>3 DEF Request
    <3> QED BY <1>0, <1>1, <2>3, <3>1 DEF DatabaseFails, Kept, TablesOK
  <2> QED BY <2>1, <2>2, <2>3 DEF DatabaseFails
<1>3. CASE h' = [h EXCEPT ![t].pc = "reply", ![t].says = NoAnswer]
  <2>1. RequestsOK' /\ \A u \in Requests : h'[u].kind = h[u].kind
    BY <1>0, <1>2, <1>3, ReplyOK
  <2> QED BY <1>2, <2>1, ServerParts DEF ServerStep
<1>4. CASE h[t].kind # "status" /\ End(t)
  BY <1>2, <1>4, EndStep
<1> QED BY <1>3, <1>4 DEF DatabaseFails

\* So does a crash, which answers the polls in flight with an error and ends the rest.
LEMMA CrashTyped ==
  ASSUME TypeInv, Crash
  PROVE  ServerStep
<1>1. TablesOK' /\ Kept
  BY TypedTables DEF Crash, TablesOK, Kept
<1>2. ASSUME NEW t \in Requests
      PROVE  /\ RequestOK(h[t])'
             /\ h'[t] \in Request \cup {Idle}
             /\ h[t].kind = "status" => h'[t].kind = "status"
  <2>0. RequestOK(h[t]) /\ h[t] \in Request \cup {Idle}
    BY DEF TypeInv, RequestsOK
  <2>1. CASE h'[t] = h[t]
    BY <1>1, <2>0, <2>1 DEF RequestOK, Kept, Request
  <2>2. CASE h'[t] = Idle /\ h[t].kind = "callback"
    BY <2>2 DEF RequestOK
  <2>3. CASE h[t].kind = "status" /\ h'[t] = [h[t] EXCEPT !.pc = "reply", !.says = NoAnswer]
    <3>1. h[t] # Idle
      BY <2>3 DEF Idle, None
    <3>2. h[t] \in Request
      BY <2>0, <3>1
    <3>3. /\ h'[t] \in Request /\ h'[t].pc = "reply" /\ h'[t].kind = "status"
          /\ h'[t].k1 = h[t].k1 /\ h'[t].key = h[t].key /\ h'[t].valid = h[t].valid
      BY <2>3, <3>2 DEF Request
    <3>4. RequestOK(h[t])'
      BY <1>1, <2>0, <3>1, <3>2, <3>3 DEF RequestOK, Kept, Request
    <3> QED BY <3>3, <3>4
  <2> QED BY <2>1, <2>2, <2>3 DEF Crash
<1>3. h' \in [Requests -> Request \cup {Idle}]
  BY <1>2 DEF Crash
<1> QED BY <1>1, <1>2, <1>3, ServerParts DEF ServerStep, RequestsOK

\* A wallet's callback arrives with its signature.
LEMMA ArrivalTyped ==
  ASSUME TypeInv, NEW t \in Requests, NEW k \in Sessions, NEW x \in Keys,
         NEW valid \in BOOLEAN, StartCallback(t, k, x, valid)
  PROVE  ServerStep
<1>1. TablesOK' /\ Kept
  BY TypedTables DEF StartCallback, TablesOK, Kept
<1>2. PICK r : r = [kind |-> "callback", pc |-> "look", k1 |-> k, key |-> x,
                    valid |-> valid, says |-> NoAnswer]
  OBVIOUS
<1>3. r \in Request
  BY <1>2 DEF Request
<1>4. RequestOK(r)'
  BY <1>2, <1>3 DEF StartCallback, RequestOK
<1>5. h' = [h EXCEPT ![t] = r]
  BY <1>2 DEF StartCallback
<1>6. RequestsOK'
  BY <1>1, <1>4, <1>5, StepOK DEF TypeInv
<1>7. \A u \in Requests : h[u].kind = "status" => h'[u].kind = "status"
  BY <1>5 DEF StartCallback, TypeInv, RequestsOK, Idle, None
<1> QED BY <1>1, <1>6, <1>7, ServerParts DEF ServerStep

\* A session is created, or its deadline passes.
LEMMA SessionTyped ==
  ASSUME TypeInv, NEW k \in Sessions, CreateSession(k) \/ Deadline(k)
  PROVE  ServerStep
<1>1. TablesOK' /\ Kept
  BY TypedTables DEF CreateSession, Deadline, TablesOK, Kept
<1>2. RequestsOK'
  <2>1. h' = h
    BY DEF CreateSession, Deadline
  <2>2. ASSUME NEW t \in Requests PROVE RequestOK(h[t])'
    BY <1>1, <2>1 DEF TypeInv, RequestsOK, RequestOK, Kept, Request
  <2> QED BY <2>1, <2>2 DEF TypeInv, RequestsOK
<1> QED BY <1>1, <1>2, ServerParts DEF ServerStep, CreateSession, Deadline

\* The dialog's part of the types.
DialogOK ==
  /\ open \in BOOLEAN
  /\ screen \in {"idle", "loading", "polling", "expired", "timeout", "error"}
  /\ request \in Sessions \cup {None}
  /\ request # None => status[request] # "none"
  /\ asked \subseteq Sessions
  /\ heard \subseteq {t \in Requests : h[t].kind = "status"}
  /\ user # None => asked = {} /\ heard = {}
  /\ user \in Keys \cup {None}

\* What the server does on its own does not disturb the dialog.
LEMMA ServerKeeps ==
  ASSUME TypeInv, ServerStep, UNCHANGED client
  PROVE  TypeInv'
<1>1. DialogOK
  BY DEF TypeInv, TypeOK, DialogOK
<1>2. DialogOK'
  BY <1>1 DEF DialogOK, ServerStep, Kept, client
<1> QED BY <1>2 DEF ServerStep, TypeInv, TypeOK, DialogOK

\* The dialog's own steps: the server's part is as it was.
LEMMA ServerUntouched ==
  ASSUME TypeInv, UNCHANGED server
  PROVE  ServerTypeOK' /\ RequestsOK'
<1>1. RequestsOK'
  BY DEF TypeInv, server, RequestsOK, RequestOK
<1>2. TablesOK'
  BY TypedTables DEF server, TablesOK
<1> QED BY <1>1, <1>2, ServerParts

\* Opening, closing, giving up, logging out, and the answer to a request for a session.
LEMMA DialogTyped ==
  ASSUME TypeInv,
         \/ \E k \in Sessions : OpenDialog(k) \/ SessionAnswered(k) \/ SessionFails(k)
         \/ CloseDialog \/ GiveUp \/ LogOut
  PROVE  TypeInv'
<1>0. DialogOK
  BY DEF TypeInv, TypeOK, DialogOK
<1>1. UNCHANGED server
  BY DEF OpenDialog, SessionAnswered, SessionFails, CloseDialog, GiveUp, LogOut
<1>2. DialogOK'
  <2> USE DEF DialogOK, server
  <2>1. ASSUME NEW k \in Sessions, OpenDialog(k) PROVE DialogOK'
    BY <1>0, <2>1 DEF OpenDialog, Mounted
  <2>2. ASSUME NEW k \in Sessions, SessionAnswered(k) PROVE DialogOK'
    BY <1>0, <2>2 DEF SessionAnswered
  <2>3. ASSUME NEW k \in Sessions, SessionFails(k) PROVE DialogOK'
    BY <1>0, <2>3 DEF SessionFails
  <2>4. CASE CloseDialog
    BY <1>0, <2>4 DEF CloseDialog
  <2>5. CASE GiveUp
    BY <1>0, <2>5 DEF GiveUp
  <2>6. CASE LogOut
    BY <1>0, <2>6 DEF LogOut
  <2> QED BY <2>1, <2>2, <2>3, <2>4, <2>5, <2>6
<1> QED BY <1>1, <1>2, ServerUntouched DEF TypeInv, TypeOK, DialogOK

\* A poll is sent about the session the dialog shows.
LEMMA PollTyped ==
  ASSUME TypeInv, NEW t \in Requests, Poll(t)
  PROVE  TypeInv'
<1>0. DialogOK
  BY DEF TypeInv, TypeOK, DialogOK
<1>1. request \in Sessions /\ status[request] # "none" /\ user = None
  BY <1>0 DEF Poll, Polling, Mounted, DialogOK
<1>2. TablesOK' /\ Kept
  BY TypedTables DEF Poll, StartStatus, TablesOK, Kept
<1>3. PICK r : r = [Idle EXCEPT !.kind = "status", !.pc = "look", !.k1 = request]
  OBVIOUS
<1>4. r \in Request /\ r.pc = "look" /\ r.kind = "status" /\ r.k1 = request /\ ~r.valid
  BY <1>1, <1>3 DEF Idle, Request, NoAnswer
<1>5. h' = [h EXCEPT ![t] = r]
  BY <1>3 DEF Poll, StartStatus
<1>6. RequestOK(r)'
  BY <1>1, <1>4 DEF RequestOK, Poll, StartStatus
<1>7. RequestsOK'
  BY <1>2, <1>5, <1>6, StepOK DEF TypeInv
<1>8. \A u \in heard' : h'[u].kind = "status"
  BY <1>0, <1>4, <1>5 DEF DialogOK, Poll, TypeInv, RequestsOK
<1>9. DialogOK'
  BY <1>0, <1>1, <1>8 DEF DialogOK, Poll, StartStatus
<1> QED BY <1>2, <1>7, <1>9, ServerParts DEF TypeInv, TypeOK, DialogOK

\* An answer is about a session that is there, and what it says is of a key.
LEMMA AnswerTyped ==
  ASSUME TypeInv, NEW t \in Requests, PollAnswered(t)
  PROVE  TypeInv'
<1>0. DialogOK
  BY DEF TypeInv, TypeOK, DialogOK
<1>1. h[t] \in Request
  BY AtWork DEF PollAnswered
<1>2. TablesOK' /\ Kept
  BY TypedTables DEF PollAnswered, TablesOK, Kept
<1>3. RequestsOK'
  BY <1>2, EndOK DEF TypeInv, PollAnswered
<1>4. \A u \in Requests \ {t} : h'[u] = h[u]
  BY DEF PollAnswered, End, TypeInv, RequestsOK
<1>5. DialogOK'
  <2>1. CASE LogIn(h[t].says.key) /\ h[t].says.key # None
    <3>1. h[t].says.key \in Keys
      BY <1>1, <2>1 DEF Request, NoAnswer
    <3> QED BY <1>0, <2>1, <3>1 DEF LogIn, DialogOK
  <2>2. CASE /\ screen' \in {screen, "error", "expired"}
             /\ heard' = heard \ {t}
             /\ UNCHANGED <<open, request, asked, user>>
    BY <1>0, <1>4, <2>2 DEF DialogOK, PollAnswered
  <2> QED BY <2>1, <2>2 DEF PollAnswered
<1> QED BY <1>2, <1>3, <1>5, ServerParts DEF TypeInv, TypeOK, DialogOK

\* Every step leaves requests, sessions and dialog typed.
LEMMA NextTyped == TypeInv /\ [Next]_vars => TypeInv'
<1> SUFFICES ASSUME TypeInv, [Next]_vars PROVE TypeInv'
  OBVIOUS
<1>1. ASSUME NEW k \in asked, CreateSession(k) /\ UNCHANGED client PROVE TypeInv'
  <2>1. k \in Sessions
    BY DEF TypeInv, TypeOK
  <2> QED BY <1>1, <2>1, SessionTyped, ServerKeeps
<1>2. CASE Outside /\ UNCHANGED client
  <2>1. ASSUME NEW k \in Sessions, Deadline(k) PROVE TypeInv'
    BY <1>2, <2>1, SessionTyped, ServerKeeps
  <2>2. ASSUME NEW t \in Requests, NEW k \in Sessions, NEW x \in Keys, NEW valid \in BOOLEAN,
               StartCallback(t, k, x, valid)
        PROVE  TypeInv'
    BY <1>2, <2>2, ArrivalTyped, ServerKeeps
  <2>3. CASE Crash
    BY <1>2, <2>3, CrashTyped, ServerKeeps
  <2> QED BY <1>2, <2>1, <2>2, <2>3 DEF Outside
<1>3. ASSUME NEW t \in Requests, Serving(t) /\ UNCHANGED client PROVE TypeInv'
  BY <1>3, LookTyped, ExpireTyped, BindTyped, FailureTyped, ServerKeeps DEF Serving
<1>4. CASE \/ \E k \in Sessions : OpenDialog(k) \/ SessionAnswered(k) \/ SessionFails(k)
           \/ CloseDialog \/ GiveUp \/ LogOut
  BY <1>4, DialogTyped
<1>5. ASSUME NEW t \in Requests, Poll(t) \/ PollAnswered(t) PROVE TypeInv'
  BY <1>5, PollTyped, AnswerTyped
<1>6. CASE UNCHANGED vars
  <2>1. UNCHANGED server /\ UNCHANGED client
    BY <1>6 DEF vars
  <2>2. DialogOK'
    BY <2>1 DEF TypeInv, TypeOK, DialogOK, server, client
  <2> QED BY <2>1, <2>2, ServerUntouched DEF TypeInv, TypeOK, DialogOK
<1> QED BY <1>1, <1>2, <1>3, <1>4, <1>5, <1>6 DEF Next

\* In every reachable state the sessions, the requests in flight and the login dialog
\* have their types; a granted key is among those signed, a session verified has a key.
THEOREM TypesCorrect == Spec => []TypeOK
<1>1. TypeInv => TypeOK
  BY DEF TypeInv
<1> QED BY InitTyped, NextTyped, <1>1, PTL DEF Spec

-----------------------------------------------------------------------------
(* Who is logged in.  The key of the user comes from an answer, which may be *)
(* old; the answer's key was read from a session, whose key was bound by a   *)
(* callback that had signed.  No step takes a signature back.                *)

Signed(x) == \E g \in signed : g.key = x

\* Keys that are bound to sessions, told in answers or logged in are signed ones.
SignInv ==
  /\ \A k \in Sessions : key[k] # None => Signed(key[k])
  /\ \A t \in Requests : h[t].says.key # None => Signed(h[t].says.key)
  /\ LoginIsSigned

\* The key of a session is as it was, or that of a callback at its update.
LEMMA KeySteps ==
  ASSUME TypeInv, Next
  PROVE  \/ UNCHANGED key
         \/ \E t \in Requests :
              /\ h[t].pc = "bind" /\ h[t].kind # "status"
              /\ key' = [key EXCEPT ![h[t].k1] = h[t].key]
              /\ status' = [status EXCEPT ![h[t].k1] = "VERIFIED"]
              /\ End(t)
              /\ UNCHANGED <<signed, rivals, client>>
              /\ granted' \in {granted, granted \cup {[k1 |-> h[t].k1, key |-> h[t].key]}}
<1>1. CASE \E t \in Requests : Serving(t) /\ UNCHANGED client
  <2>1. PICK t \in Requests : Serving(t) /\ UNCHANGED client
    BY <1>1
  <2>2. CASE Look(t) \/ Expire(t)
    BY <2>2 DEF Look, Expire
  <2>3. CASE Bind(t)
    <3>1. h[t].kind # "status"
      BY <2>3, AtWork DEF Bind
    <3> QED BY <2>1, <2>3, <3>1 DEF Bind
  <2>4. CASE DatabaseFails(t) /\ ~UNCHANGED key
    <3>1. h[t].pc = "bind"
      BY <2>4 DEF DatabaseFails
    <3>2. h[t].kind # "status"
      BY <3>1, AtWork
    <3> QED BY <2>1, <2>4, <3>1, <3>2 DEF DatabaseFails
  <2> QED BY <2>1, <2>2, <2>3, <2>4 DEF Serving
<1>2. CASE Outside
  BY <1>2 DEF Outside, Deadline, StartCallback, Crash
<1>3. CASE ~Outside /\ ~(\E t \in Requests : Serving(t) /\ UNCHANGED client)
  BY <1>3 DEF Next, CreateSession, OpenDialog, SessionAnswered, SessionFails, Poll, StartStatus,
         PollAnswered, CloseDialog, GiveUp, LogOut, server
<1> QED BY <1>1, <1>2, <1>3

\* An answer is as it was, or says the key its session has by then, or none.
LEMMA SaysSteps ==
  ASSUME TypeInv, Next, NEW t \in Requests
  PROVE  \/ h'[t].says.key \in {h[t].says.key, None}
         \/ h[t].k1 \in Sessions /\ h'[t].says.key = key[h[t].k1]
<1> USE DEF NoAnswer
<1>0. h \in [Requests -> Request \cup {Idle}] /\ Idle.says.key = None
  BY DEF TypeInv, RequestsOK, Idle
<1>1. CASE \E u \in Requests : Serving(u)
  <2>1. PICK u \in Requests : Serving(u)
    BY <1>1
  <2>2. h[u] \in Request /\ h[u].k1 \in Sessions
    BY <2>1, AtWork DEF Serving, Look, Expire, Bind, DatabaseFails
  <2>3. CASE End(u)
    BY <1>0, <2>3 DEF End
  <2>4. CASE \E s : Say(u, h[u].k1, s)
    <3>1. PICK s : Say(u, h[u].k1, s)
      BY <2>4
    <3>2. h'[u] = [h[u] EXCEPT !.pc = "reply", !.says = Answer(h[u].k1, s)]
      BY <1>0, <3>1 DEF Say
    <3>3. h'[u].says.key = key[h[u].k1]
      BY <2>2, <3>2 DEF Request, Answer
    <3>4. t # u => h'[t] = h[t]
      BY <1>0, <3>1 DEF Say
    <3> QED BY <2>2, <3>3, <3>4
  <2>5. CASE \E pc : h' = [h EXCEPT ![u].pc = pc]
    <3>1. PICK pc : h' = [h EXCEPT ![u].pc = pc]
      BY <2>5
    <3>2. h'[u].says = h[u].says
      BY <1>0, <2>2, <3>1 DEF Request
    <3>3. t # u => h'[t] = h[t]
      BY <1>0, <3>1
    <3> QED BY <3>2, <3>3
  <2>6. CASE h' = [h EXCEPT ![u].pc = "reply", ![u].says = NoAnswer]
    <3>1. h'[u] = [h[u] EXCEPT !.pc = "reply", !.says = NoAnswer]
      BY <1>0, <2>6
    <3>2. h'[u].says.key = None
      BY <2>2, <3>1 DEF Request
    <3>3. t # u => h'[t] = h[t]
      BY <1>0, <2>6
    <3> QED BY <3>2, <3>3
  <2> QED BY <2>1, <2>3, <2>4, <2>5, <2>6 DEF Serving, Look, Expire, Bind, DatabaseFails
<1>2. CASE \E k \in Sessions : Deadline(k) \/ CreateSession(k)
  BY <1>2 DEF Deadline, CreateSession
<1>3. CASE \E u \in Requests, k \in Sessions, x \in Keys, valid \in BOOLEAN :
             StartCallback(u, k, x, valid)
  BY <1>0, <1>3 DEF StartCallback
<1>4. CASE Crash
  <2>1. h[t] \in Request \cup {Idle}
    BY <1>0
  <2>2. CASE h'[t] = [h[t] EXCEPT !.pc = "reply", !.says = NoAnswer] /\ h[t].kind = "status"
    <3>1. h[t] \in Request
      BY <2>1, <2>2 DEF Idle, None
    <3> QED BY <2>2, <3>1 DEF Request
  <2>3. CASE h'[t] = Idle \/ h'[t] = h[t]
    BY <1>0, <2>3
  <2> QED BY <1>4, <2>2, <2>3 DEF Crash
<1>5. CASE \E u \in Requests : Poll(u) \/ PollAnswered(u)
  <2>1. CASE \E u \in Requests : Poll(u)
    <3>1. PICK u \in Requests : Poll(u)
      BY <2>1
    <3>2. h' = [h EXCEPT ![u] = [Idle EXCEPT !.kind = "status", !.pc = "look", !.k1 = request]]
      BY <3>1 DEF Poll, StartStatus
    <3>3. h'[u].says = NoAnswer
      BY <1>0, <3>2 DEF Idle
    <3> QED BY <1>0, <3>2, <3>3
  <2>2. CASE \E u \in Requests : PollAnswered(u)
    BY <1>0, <2>2 DEF PollAnswered, End
  <2> QED BY <1>5, <2>1, <2>2
<1>6. CASE \/ \E k \in Sessions : OpenDialog(k) \/ SessionAnswered(k) \/ SessionFails(k)
           \/ CloseDialog \/ GiveUp \/ LogOut
  BY <1>6 DEF OpenDialog, SessionAnswered, SessionFails, CloseDialog, GiveUp, LogOut, server
<1>7. asked \subseteq Sessions
  BY DEF TypeInv, TypeOK
<1> QED BY <1>1, <1>2, <1>3, <1>4, <1>5, <1>6, <1>7 DEF Next, Outside

\* A step logs in only a key that an answer told.
LEMMA UserSteps ==
  ASSUME Next
  PROVE  user' \in {user, None} \/ \E t \in Requests : user' = h[t].says.key
BY DEF Next, OpenDialog, SessionAnswered, SessionFails, Poll, PollAnswered, LogIn,
       CloseDialog, GiveUp, LogOut, client

\* No step takes a signature back.
LEMMA SignedGrows ==
  ASSUME Next
  PROVE  signed \subseteq signed'
<1>1. CASE Outside
  BY <1>1 DEF Outside, Deadline, StartCallback, Crash
<1>2. ASSUME NEW t \in Requests, Serving(t) PROVE signed \subseteq signed'
  BY <1>2 DEF Serving, Look, Expire, Bind, DatabaseFails
<1> QED BY <1>1, <1>2 DEF Next, CreateSession, OpenDialog, SessionAnswered, SessionFails,
          Poll, StartStatus, PollAnswered, CloseDialog, GiveUp, LogOut, server

\* Every step keeps keys signed on their way from the wallet to the application.
LEMMA NextSigned == TypeInv /\ SignInv /\ [Next]_vars => SignInv'
<1> SUFFICES ASSUME TypeInv, SignInv, [Next]_vars PROVE SignInv'
  OBVIOUS
<1>1. CASE UNCHANGED vars
  BY <1>1 DEF vars, server, client, SignInv, Signed, LoginIsSigned
<1>2. CASE Next
  <2>0. signed \subseteq signed' /\ h \in [Requests -> Request \cup {Idle}]
    BY <1>2, SignedGrows DEF TypeInv, RequestsOK
  <2>1. ASSUME NEW k \in Sessions, key'[k] # None PROVE \E g \in signed' : g.key = key'[k]
    <3>1. Signed(key'[k])
      <4>1. CASE UNCHANGED key
        BY <2>1, <4>1 DEF SignInv
      <4>2. CASE \E t \in Requests :
                   h[t].pc = "bind" /\ key' = [key EXCEPT ![h[t].k1] = h[t].key]
        <5>1. PICK t \in Requests :
                h[t].pc = "bind" /\ key' = [key EXCEPT ![h[t].k1] = h[t].key]
          BY <4>2
        <5>2. [k1 |-> h[t].k1, key |-> h[t].key] \in signed /\ h[t].k1 \in Sessions
          BY <5>1, AtWork
        <5>3. Signed(h[t].key)
          BY <5>2 DEF Signed
        <5>4. CASE k = h[t].k1
          BY <5>1, <5>3, <5>4 DEF TypeInv, TypeOK, ServerTypeOK
        <5>5. CASE k # h[t].k1
          BY <2>1, <5>1, <5>5 DEF SignInv, TypeInv, TypeOK, ServerTypeOK
        <5> QED BY <5>4, <5>5
      <4> QED BY <1>2, <4>1, <4>2, KeySteps
    <3> QED BY <2>0, <3>1 DEF Signed
  <2>2. ASSUME NEW t \in Requests, h'[t].says.key # None PROVE \E g \in signed' : g.key = h'[t].says.key
    <3>1. Signed(h'[t].says.key)
      BY <1>2, <2>2, SaysSteps DEF SignInv
    <3> QED BY <2>0, <3>1 DEF Signed
  <2>3. LoginIsSigned'
    <3>1. user' # None => Signed(user')
      BY <1>2, UserSteps DEF SignInv, LoginIsSigned, Signed
    <3> QED BY <2>0, <3>1 DEF LoginIsSigned, Signed
  <2> QED BY <2>1, <2>2, <2>3 DEF SignInv, Signed
<1> QED BY <1>1, <1>2

\* Whoever is logged in has signed a session's k1, whatever polls were overtaken,
\* answered late or answered to a dialog that had been closed.
THEOREM LoginSigned == Spec => []LoginIsSigned
<1>1. Init => SignInv
  BY DEF Init, ServerInit, SignInv, LoginIsSigned, Idle, NoAnswer
<1>2. SignInv => LoginIsSigned
  BY DEF SignInv
<1> QED BY InitTyped, NextTyped, NextSigned, <1>1, <1>2, PTL DEF Spec

-----------------------------------------------------------------------------
(* Whose session it is.  The update binds by k1 alone, whatever the session  *)
(* has become since it was read.  It can only take a session away from the   *)
(* key it was granted to if two callbacks with different keys had both read  *)
(* the session pending: then the second was let in as a rival of the first,  *)
(* or finds the first one's key there, from which it differs.                *)

AtBind(t) == h[t].pc = "bind"

\* A session that is not yet verified belongs to nobody.
FreeUntilBound == \A k \in Sessions : status[k] \in {"none", "PENDING"} => key[k] = None

\* Two callbacks about to bind one session to different keys are rivals.
RivalsNoted ==
  \A t, u \in Requests :
    AtBind(t) /\ AtBind(u) /\ h[t].k1 = h[u].k1 /\ h[t].key # h[u].key => h[t].k1 \in rivals

\* So are one that is about to bind and the one that has bound.
LateRivalNoted ==
  \A t \in Requests :
    AtBind(t) /\ key[h[t].k1] \notin {None, h[t].key} => h[t].k1 \in rivals

OwnInv == FreeUntilBound /\ RivalsNoted /\ LateRivalNoted /\ GrantedKeyStays

\* A callback about to bind was so before, or has just read its session pending, which
\* is when its rivals are noted.
LEMMA BindSteps ==
  ASSUME TypeInv, Next, NEW t \in Requests, AtBind(t)'
  PROVE  /\ h'[t].k1 = h[t].k1 /\ h'[t].key = h[t].key /\ h[t].pc # "idle"
         /\ \/ AtBind(t)
            \/ /\ status[h[t].k1] = "PENDING"
               /\ UNCHANGED <<status, key, granted>>
               /\ Rival(t, h[t].k1) => h[t].k1 \in rivals'
               /\ \A u \in Requests \ {t} : h'[u] = h[u]
<1>0. h \in [Requests -> Request \cup {Idle}] /\ Idle.pc # "bind"
  BY DEF TypeInv, RequestsOK, Idle
<1>1. CASE h'[t] = h[t]
  BY <1>1, AtWork DEF AtBind
<1>2. CASE h'[t] # h[t]
  <2>1. PICK u \in Requests : Serving(u)
    <3>1. asked \subseteq Sessions
      BY DEF TypeInv, TypeOK
    <3>2. ~Outside
      <4>1. ~Crash
        <5>1. h[t] \in Request => [h[t] EXCEPT !.pc = "reply", !.says = NoAnswer].pc = "reply"
          BY DEF Request
        <5>2. h[t] = Idle => h[t].kind # "status"
          BY DEF Idle, None
        <5> QED BY <1>0, <1>2, <5>1, <5>2 DEF Crash, AtBind
      <4>2. \A k \in Sessions : ~Deadline(k)
        BY <1>2 DEF Deadline
      <4>3. \A u \in Requests, k \in Sessions, x \in Keys, valid \in BOOLEAN :
              ~StartCallback(u, k, x, valid)
        BY <1>0, <1>2 DEF StartCallback, AtBind
      <4> QED BY <4>1, <4>2, <4>3 DEF Outside
    <3>3. \A u \in Requests : ~Poll(u) /\ ~PollAnswered(u)
      <4>1. \A u \in Requests : ~Poll(u)
        <5>1. SUFFICES ASSUME NEW u \in Requests, Poll(u) PROVE FALSE
          OBVIOUS
        <5>2. PICK k : h' = [h EXCEPT ![u] = [Idle EXCEPT !.kind = "status", !.pc = "look", !.k1 = k]]
          BY <5>1 DEF Poll, StartStatus
        <5>3. u # t => h'[t] = h[t]
          BY <1>0, <5>2
        <5>4. u = t => h'[t].pc = "look"
          BY <1>0, <5>2 DEF Idle
        <5> QED BY <1>2, <5>3, <5>4 DEF AtBind
      <4>2. \A u \in Requests : ~PollAnswered(u)
        BY <1>0, <1>2 DEF PollAnswered, End, AtBind
      <4> QED BY <4>1, <4>2
    <3>4. \A k \in Sessions : ~CreateSession(k) /\ ~OpenDialog(k) /\ ~SessionAnswered(k)
                              /\ ~SessionFails(k)
      BY <1>2 DEF CreateSession, OpenDialog, SessionAnswered, SessionFails, server
    <3>5. ~CloseDialog /\ ~GiveUp /\ ~LogOut
      BY <1>2 DEF CloseDialog, GiveUp, LogOut, server
    <3>6. Next
      OBVIOUS
    <3>7. ~\E k \in asked : CreateSession(k) /\ UNCHANGED client
      BY <3>1, <3>4
    <3> QED BY <3>2, <3>3, <3>4, <3>5, <3>6, <3>7 DEF Next
  <2>2. h[u] \in Request
    BY <2>1, AtWork DEF Serving, Look, Expire, Bind, DatabaseFails
  <2>3. /\ Look(u)
        /\ MayBind(u, h[u].k1)
        /\ h' = [h EXCEPT ![u].pc = "bind"]
        /\ rivals' = IF Rival(u, h[u].k1) THEN rivals \cup {h[u].k1} ELSE rivals
        /\ UNCHANGED granted
    <3>1. ~End(u)
      BY <1>0, <1>2 DEF End, AtBind
    <3>2. ~\E s : Say(u, h[u].k1, s)
      <4> SUFFICES ASSUME NEW s, Say(u, h[u].k1, s) PROVE FALSE
        OBVIOUS
      <4>1. h'[u] = [h[u] EXCEPT !.pc = "reply", !.says = Answer(h[u].k1, s)]
        BY <1>0 DEF Say
      <4>2. h'[u].pc = "reply"
        BY <2>2, <4>1 DEF Request
      <4>3. t # u => h'[t] = h[t]
        BY <1>0 DEF Say
      <4> QED BY <1>2, <4>2, <4>3 DEF AtBind
    <3>3. h' # [h EXCEPT ![u].pc = "expire"]
      BY <1>0, <1>2, <2>2 DEF AtBind, Request
    <3>4. h' # [h EXCEPT ![u].pc = "reply", ![u].says = NoAnswer]
      <4> SUFFICES ASSUME h' = [h EXCEPT ![u].pc = "reply", ![u].says = NoAnswer] PROVE FALSE
        OBVIOUS
      <4>1. h'[u] = [h[u] EXCEPT !.pc = "reply", !.says = NoAnswer]
        BY <1>0
      <4>2. h'[u].pc = "reply"
        <5>1. \A q \in Request : [q EXCEPT !.pc = "reply", !.says = NoAnswer].pc = "reply"
          BY DEF Request
        <5> QED BY <2>2, <4>1, <5>1
      <4>3. t # u => h'[t] = h[t]
        BY <1>0
      <4> QED BY <1>2, <4>2, <4>3 DEF AtBind
    <3> QED BY <2>1, <3>1, <3>2, <3>3, <3>4 DEF Serving, Look, Expire, Bind, DatabaseFails
  <2>4. t = u
    BY <1>0, <1>2, <2>3
  <2>5. h'[t].k1 = h[t].k1 /\ h'[t].key = h[t].key
    BY <1>0, <2>2, <2>3, <2>4 DEF Request
  <2>6. status[h[t].k1] = "PENDING"
    BY <2>3, <2>4 DEF MayBind
  <2>7. h[t].pc # "idle"
    BY <2>3, <2>4 DEF Look
  <2> QED BY <1>0, <2>3, <2>4, <2>5, <2>6, <2>7 DEF Look
<1> QED BY <1>1, <1>2

\* Once noted, rivals are rivals for good.
LEMMA RivalsGrow ==
  ASSUME Next
  PROVE  rivals \subseteq rivals'
<1>1. CASE Outside
  BY <1>1 DEF Outside, Deadline, StartCallback, Crash
<1>2. ASSUME NEW t \in Requests, Serving(t) PROVE rivals \subseteq rivals'
  BY <1>2 DEF Serving, Look, Expire, Bind, DatabaseFails
<1> QED BY <1>1, <1>2 DEF Next, CreateSession, OpenDialog, SessionAnswered, SessionFails,
          Poll, StartStatus, PollAnswered, CloseDialog, GiveUp, LogOut, server

\* Without an update no session becomes free that was not, and a callback is answered OK
\* only for the key its session has.
LEMMA FreeSteps ==
  ASSUME TypeInv, Next, UNCHANGED key
  PROVE  /\ \A k \in Sessions :
              status'[k] \in {"none", "PENDING"} => status[k] \in {"none", "PENDING"}
         /\ \A g \in granted' : g \in granted \/ key[g.k1] = g.key
                                \/ \E t \in Requests : AtBind(t) /\ Bind(t)
<1>0. status \in [Sessions -> {"none", "PENDING", "VERIFIED", "EXPIRED"}] /\ asked \subseteq Sessions
  BY DEF TypeInv, TypeOK, ServerTypeOK
<1>1. CASE \E k \in Sessions : CreateSession(k)
  BY <1>0, <1>1 DEF CreateSession
<1>2. CASE \E t \in Requests : Serving(t)
  <2>1. PICK t \in Requests : Serving(t)
    BY <1>2
  <2>2. h[t].k1 \in Sessions
    BY <2>1, AtWork DEF Serving, Look, Expire, Bind, DatabaseFails
  <2>3. CASE Look(t)
    BY <2>3 DEF Look, IsRepeat
  <2>4. CASE Expire(t) \/ DatabaseFails(t)
    BY <1>0, <2>2, <2>4 DEF Expire, DatabaseFails
  <2>5. CASE Bind(t)
    BY <1>0, <2>2, <2>5 DEF Bind, AtBind
  <2> QED BY <2>1, <2>3, <2>4, <2>5 DEF Serving
<1>3. CASE UNCHANGED <<status, granted>>
  BY <1>3
<1>4. Outside => UNCHANGED <<status, granted>>
  BY DEF Outside, Deadline, StartCallback, Crash
<1> QED BY <1>0, <1>1, <1>2, <1>3, <1>4 DEF Next, OpenDialog, SessionAnswered, SessionFails, Poll,
          StartStatus, PollAnswered, CloseDialog, GiveUp, LogOut, server

\* The update of callback t keeps every session in the hands it was granted to.
LEMMA BindOwns ==
  ASSUME TypeInv, OwnInv, NEW t \in Requests, AtBind(t), h[t].kind # "status",
         key' = [key EXCEPT ![h[t].k1] = h[t].key],
         status' = [status EXCEPT ![h[t].k1] = "VERIFIED"],
         End(t), UNCHANGED rivals,
         granted' \in {granted, granted \cup {[k1 |-> h[t].k1, key |-> h[t].key]}}
  PROVE  OwnInv'
<1> DEFINE k == h[t].k1
<1>0. /\ k \in Sessions /\ h[t].key # None
      /\ key \in [Sessions -> Keys \cup {None}]
      /\ status \in [Sessions -> {"none", "PENDING", "VERIFIED", "EXPIRED"}]
      /\ granted \subseteq [k1 : Sessions, key : Keys]
      /\ h \in [Requests -> Request \cup {Idle}] /\ Idle.pc # "bind"
  BY AtWork DEF AtBind, TypeInv, TypeOK, ServerTypeOK, Idle
<1>1. FreeUntilBound'
  BY <1>0 DEF OwnInv, FreeUntilBound
<1>2. \A u \in Requests : AtBind(u)' => AtBind(u) /\ u # t /\ h'[u] = h[u] /\ h[u].k1 \in Sessions
  BY <1>0, AtWork DEF AtBind, End
<1>3. RivalsNoted'
  BY <1>2 DEF OwnInv, RivalsNoted
<1>4. LateRivalNoted'
  <2> SUFFICES ASSUME NEW u \in Requests, AtBind(u)', key'[h'[u].k1] \notin {None, h'[u].key}
               PROVE  h'[u].k1 \in rivals
    BY DEF LateRivalNoted
  <2>1. AtBind(u) /\ h'[u] = h[u] /\ h[u].k1 \in Sessions
    BY <1>2
  <2>2. CASE h[u].k1 = k
    BY <1>0, <2>1, <2>2 DEF OwnInv, RivalsNoted
  <2>3. CASE h[u].k1 # k
    BY <1>0, <2>1, <2>3 DEF OwnInv, LateRivalNoted
  <2> QED BY <2>2, <2>3
<1>5. GrantedKeyStays'
  <2> SUFFICES ASSUME NEW g \in granted', g.k1 \notin rivals PROVE key'[g.k1] = g.key
    BY DEF GrantedKeyStays
  <2>1. CASE g = [k1 |-> k, key |-> h[t].key]
    BY <1>0, <2>1
  <2>2. CASE g \in granted
    <3>1. key[g.k1] = g.key /\ g.key # None /\ g.k1 \in Sessions
      BY <1>0, <2>2 DEF OwnInv, GrantedKeyStays
    <3>2. g.k1 = k => h[t].key = g.key
      BY <3>1 DEF OwnInv, LateRivalNoted
    <3> QED BY <1>0, <3>1, <3>2
  <2> QED BY <2>1, <2>2
<1> QED BY <1>1, <1>3, <1>4, <1>5 DEF OwnInv

\* A step without an update does so too.
LEMMA OthersOwn ==
  ASSUME TypeInv, OwnInv, Next, UNCHANGED key
  PROVE  OwnInv'
<1>0. /\ \A k \in Sessions :
           status'[k] \in {"none", "PENDING"} => status[k] \in {"none", "PENDING"}
      /\ rivals \subseteq rivals'
  BY FreeSteps, RivalsGrow
<1>1. FreeUntilBound'
  BY <1>0 DEF OwnInv, FreeUntilBound
<1>2. RivalsNoted'
  <2> SUFFICES ASSUME NEW t \in Requests, NEW u \in Requests, AtBind(t)', AtBind(u)',
                      h'[t].k1 = h'[u].k1, h'[t].key # h'[u].key
               PROVE  h'[t].k1 \in rivals'
    BY DEF RivalsNoted
  <2>1. /\ h'[t].k1 = h[t].k1 /\ h'[t].key = h[t].key
        /\ h'[u].k1 = h[u].k1 /\ h'[u].key = h[u].key
        /\ t # u
    BY BindSteps
  <2>2. CASE AtBind(t) /\ AtBind(u)
    BY <1>0, <2>1, <2>2 DEF OwnInv, RivalsNoted
  <2>3. CASE ~AtBind(t)
    BY <2>1, <2>3, BindSteps DEF Rival, AtBind
  <2>4. CASE ~AtBind(u)
    BY <2>1, <2>4, BindSteps DEF Rival, AtBind
  <2> QED BY <2>2, <2>3, <2>4
<1>3. LateRivalNoted'
  <2> SUFFICES ASSUME NEW t \in Requests, AtBind(t)', key[h'[t].k1] \notin {None, h'[t].key}
               PROVE  h'[t].k1 \in rivals'
    BY DEF LateRivalNoted
  <2>1. h'[t].k1 = h[t].k1 /\ h'[t].key = h[t].key /\ h[t].k1 \in Sessions
    BY BindSteps, AtWork
  <2>2. CASE AtBind(t)
    BY <1>0, <2>1, <2>2 DEF OwnInv, LateRivalNoted
  <2>3. CASE ~AtBind(t)
    BY <2>1, <2>3, BindSteps DEF OwnInv, FreeUntilBound
  <2> QED BY <2>2, <2>3
<1>4. GrantedKeyStays'
  <2> SUFFICES ASSUME NEW g \in granted', g.k1 \notin rivals' PROVE key[g.k1] = g.key
    BY DEF GrantedKeyStays
  <2>1. CASE g \in granted \/ key[g.k1] = g.key
    BY <1>0, <2>1 DEF OwnInv, GrantedKeyStays
  <2>2. CASE g \notin granted /\ \E t \in Requests : AtBind(t) /\ Bind(t)
    <3>1. PICK t \in Requests : AtBind(t) /\ Bind(t)
      BY <2>2
    <3>2. g = [k1 |-> h[t].k1, key |-> h[t].key] /\ h[t].k1 \in Sessions
      BY <2>2, <3>1, AtWork DEF Bind, AtBind
    <3> QED BY <3>1, <3>2 DEF Bind, TypeInv, TypeOK, ServerTypeOK
  <2> QED BY <2>1, <2>2, FreeSteps
<1> QED BY <1>1, <1>2, <1>3, <1>4 DEF OwnInv

\* Every step keeps sessions with the keys they were granted to, rivals apart.
LEMMA NextOwns == TypeInv /\ OwnInv /\ [Next]_vars => OwnInv'
<1> SUFFICES ASSUME TypeInv, OwnInv, [Next]_vars PROVE OwnInv'
  OBVIOUS
<1>1. CASE UNCHANGED vars
  BY <1>1 DEF vars, server, OwnInv, FreeUntilBound, RivalsNoted, LateRivalNoted, GrantedKeyStays,
              AtBind
<1>2. CASE Next
  BY <1>2, KeySteps, BindOwns, OthersOwn DEF AtBind
<1> QED BY <1>1, <1>2

\* A wallet that was answered OK keeps the session, expired or not, repeated, crashed
\* or failed in between; only callbacks with two keys that had both found the session
\* pending can take it from each other.
THEOREM GrantsStay == Spec => []GrantedKeyStays
<1>1. Init => OwnInv
  BY DEF Init, ServerInit, OwnInv, FreeUntilBound, RivalsNoted, LateRivalNoted, GrantedKeyStays,
         AtBind, Idle
<1>2. OwnInv => GrantedKeyStays
  BY DEF OwnInv
<1> QED BY InitTyped, NextTyped, NextOwns, <1>1, <1>2, PTL DEF Spec

-----------------------------------------------------------------------------
(* All the dialogs.  MCDialogs explores one at a time; each behaves as its   *)
(* own specification says, so that what is proved of it holds here.  Zap and *)
(* ZapPay are two instances of one module: their definitions are the same.   *)

\* A step of the payment dialogs' polling, opening and closing is one by either name.
LEMMA SameDialog ==
  /\ Zap!PollInVain => ZapPay!PollInVain
  /\ Zap!PollAgain => ZapPay!PollAgain
  /\ Zap!PollRefused => ZapPay!PollRefused
  /\ Zap!PollSaysPaid => ZapPay!PollSaysPaid
  /\ Zap!ClickLoggedOut => ZapPay!ClickLoggedOut
  /\ Zap!Close => ZapPay!Close
  /\ Zap!AuthErrorDismissed => ZapPay!AuthErrorDismissed
  /\ Zap!RegtestClick => ZapPay!RegtestClick
BY
   DEF Zap!PollInVain, ZapPay!PollInVain, Zap!PollAgain, ZapPay!PollAgain, Zap!PollRefused,
       ZapPay!PollRefused, Zap!PollSaysPaid, ZapPay!PollSaysPaid, Zap!ClickLoggedOut,
       ZapPay!ClickLoggedOut, Zap!Close, ZapPay!Close, Zap!AuthErrorDismissed,
       ZapPay!AuthErrorDismissed, Zap!RegtestClick, ZapPay!RegtestClick, Zap!Show,
       ZapPay!Show, Zap!Rendered, ZapPay!Rendered, Zap!None, ZapPay!None, Zap!config,
       ZapPay!config, Zap!dialog, ZapPay!dialog

\* So is a step of an attempt up to its invoice.
LEMMA SameAttempt ==
  ASSUME NEW a
  PROVE  /\ Zap!Click(a) => ZapPay!Click(a)
         /\ Zap!Superseded(a) => ZapPay!Superseded(a)
         /\ Zap!Fails(a) => ZapPay!Fails(a)
         /\ Zap!AddressFound(a) => ZapPay!AddressFound(a)
         /\ Zap!RequestSigned(a) => ZapPay!RequestSigned(a)
         /\ Zap!InvoiceFetched(a) => ZapPay!InvoiceFetched(a)
BY
   DEF Zap!Click, ZapPay!Click, Zap!Superseded, ZapPay!Superseded, Zap!Abandon,
       ZapPay!Abandon, Zap!Fails, ZapPay!Fails, Zap!AddressFound, ZapPay!AddressFound,
       Zap!RequestSigned, ZapPay!RequestSigned, Zap!InvoiceFetched, ZapPay!InvoiceFetched,
       Zap!Stale, ZapPay!Stale, Zap!Go, ZapPay!Go, Zap!TryNext, ZapPay!TryNext,
       Zap!StartTimer, ZapPay!StartTimer, Zap!Attempts, ZapPay!Attempts, Zap!Show,
       ZapPay!Show, Zap!Rendered, ZapPay!Rendered, Zap!None, ZapPay!None, Zap!config,
       ZapPay!config, Zap!dialog, ZapPay!dialog

\* So is a step of the wallets, the timers and the payments.
LEMMA SamePayment ==
  ASSUME NEW a
  PROVE  /\ Zap!NwcPaid(a) => ZapPay!NwcPaid(a)
         /\ Zap!NwcFails(a) => ZapPay!NwcFails(a)
         /\ Zap!WeblnPaid(a) => ZapPay!WeblnPaid(a)
         /\ Zap!WeblnFails(a) => ZapPay!WeblnFails(a)
         /\ Zap!TimerFires(a) => ZapPay!TimerFires(a)
         /\ Zap!RegtestPaid(a) => ZapPay!RegtestPaid(a)
         /\ Zap!RegtestFails(a) => ZapPay!RegtestFails(a)
         /\ \A who : Zap!Pay(a, who) => ZapPay!Pay(a, who)
BY
   DEF Zap!NwcPaid, ZapPay!NwcPaid, Zap!NwcFails, ZapPay!NwcFails, Zap!WeblnPaid,
       ZapPay!WeblnPaid, Zap!WeblnFails, ZapPay!WeblnFails, Zap!TimerFires,
       ZapPay!TimerFires, Zap!RegtestPaid, ZapPay!RegtestPaid, Zap!RegtestFails,
       ZapPay!RegtestFails, Zap!Pay, ZapPay!Pay, Zap!Stale, ZapPay!Stale, Zap!Go,
       ZapPay!Go, Zap!TryNext, ZapPay!TryNext, Zap!StartTimer, ZapPay!StartTimer, Zap!Show,
       ZapPay!Show, Zap!Rendered, ZapPay!Rendered, Zap!None, ZapPay!None, Zap!config,
       ZapPay!config, Zap!dialog, ZapPay!dialog

\* So is every step of the payment dialogs.
LEMMA SameZap == ASSUME Zap!Next PROVE ZapPay!Next
<1>1. CASE \/ Zap!PollInVain \/ Zap!PollAgain \/ Zap!PollRefused \/ Zap!PollSaysPaid
           \/ Zap!ClickLoggedOut \/ Zap!Close \/ Zap!AuthErrorDismissed \/ Zap!RegtestClick
  BY <1>1, SameDialog DEF ZapPay!Next
<1>2. ASSUME NEW a \in Zap!Attempts,
             \/ Zap!Click(a) \/ Zap!Superseded(a) \/ Zap!Fails(a)
             \/ Zap!AddressFound(a) \/ Zap!RequestSigned(a) \/ Zap!InvoiceFetched(a)
             \/ Zap!NwcPaid(a) \/ Zap!NwcFails(a) \/ Zap!WeblnPaid(a) \/ Zap!WeblnFails(a)
             \/ Zap!TimerFires(a) \/ Zap!RegtestPaid(a) \/ Zap!RegtestFails(a)
      PROVE  ZapPay!Next
  <2>1. a \in ZapPay!Attempts
    BY DEF Zap!Attempts, ZapPay!Attempts
  <2>2. \/ ZapPay!Click(a) \/ ZapPay!Superseded(a) \/ ZapPay!Fails(a)
        \/ ZapPay!AddressFound(a) \/ ZapPay!RequestSigned(a) \/ ZapPay!InvoiceFetched(a)
        \/ ZapPay!NwcPaid(a) \/ ZapPay!NwcFails(a) \/ ZapPay!WeblnPaid(a)
        \/ ZapPay!WeblnFails(a) \/ ZapPay!TimerFires(a) \/ ZapPay!RegtestPaid(a)
        \/ ZapPay!RegtestFails(a)
    BY <1>2, SameAttempt, SamePayment
  <2> QED BY <2>1, <2>2 DEF ZapPay!Next
<1>3. ASSUME NEW a \in Zap!Attempts, NEW who \in {"nwc", "webln", "regtest", "somebody"},
             Zap!Pay(a, who)
      PROVE  ZapPay!Next
  <2>1. a \in ZapPay!Attempts /\ ZapPay!Pay(a, who)
    BY <1>3, SamePayment DEF Zap!Attempts, ZapPay!Attempts
  <2> QED BY <2>1 DEF ZapPay!Next
<1> QED BY <1>1, <1>2, <1>3 DEF Zap!Next

\* The login behaves as LnurlLogin says, the payment dialogs as ZapPayment.
LEMMA EachBehaves == PartsSpec => Spec /\ ZapPay!Spec
<1>1. PartsInit => Init /\ ZapPay!Init
  BY DEF PartsInit, Zap!Init, ZapPay!Init, Zap!Attempts, ZapPay!Attempts, Zap!None, ZapPay!None
<1>2. [PartsNext]_<<part, vars, zapVars>> => [Next]_vars
  BY DEF PartsNext
<1>3. [PartsNext]_<<part, vars, zapVars>> => [ZapPay!Next]_ZapPay!vars
  <2>1. UNCHANGED zapVars => UNCHANGED ZapPay!vars
    BY DEF zapVars, ZapPay!vars, ZapPay!config, ZapPay!dialog
  <2> QED BY <2>1, SameZap DEF PartsNext
<1> QED BY <1>1, <1>2, <1>3, PTL DEF PartsSpec, Spec, ZapPay!Spec

\* In every reachable state the variables of the login, its server and the payment
\* dialogs have their types.
THEOREM DialogsTyped == PartsSpec => []TypesOK
<1>1. TypeOK /\ ZapPay!TypeOK => TypesOK
  BY DEF TypesOK, Zap!TypeOK, ZapPay!TypeOK, Zap!Attempts, ZapPay!Attempts, Zap!None, ZapPay!None
<1>2. ZapPay!Spec => []ZapPay!TypeOK
  BY ZapPay!TypesCorrect
<1> QED BY EachBehaves, TypesCorrect, <1>1, <1>2, PTL

\* Whatever attempts still run, the zap dialog changes as its flow is documented, shows
\* the current attempt's invoice only, and says paid only of an invoice that is paid.
THEOREM DialogsFollowFlow == PartsSpec => ZapFollowsFlow
<1>1. ZapPay!Spec => ZapPay!ZapFollowsFlow
  BY AttemptsAssumption, ZapPay!FlowFollowed DEF ZapPay!NumbersOK
<1>2. ZapPay!ZapFollowsFlow => ZapFollowsFlow
  <2>1. Zap!vars = ZapPay!vars /\ Zap!vars' = ZapPay!vars' /\ Zap!Flow = ZapPay!Flow
    BY DEF Zap!vars, ZapPay!vars, Zap!config, ZapPay!config, Zap!dialog, ZapPay!dialog, Zap!Flow,
           ZapPay!Flow
  <2>2. [kind = "zap" /\ ~regtest /\ view' # view =>
           /\ <<view, view'>> \in ZapPay!Flow
           /\ view' \in {"waiting-payment", "paid"} => invoice' = current'
           /\ view' = "paid" => paid[invoice'] # "nobody"]_ZapPay!vars
        => [kind = "zap" /\ ~regtest /\ view' # view =>
              /\ <<view, view'>> \in Zap!Flow
              /\ view' \in {"waiting-payment", "paid"} => invoice' = current'
              /\ view' = "paid" => paid[invoice'] # "nobody"]_Zap!vars
    BY <2>1
  <2> QED BY <2>2, PTL DEF ZapFollowsFlow, Zap!ZapFollowsFlow, ZapPay!ZapFollowsFlow
<1> QED BY EachBehaves, <1>1, <1>2, PTL

=============================================================================
