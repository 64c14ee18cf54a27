---------------------------- MODULE LnurlLogin ------------------------------
(***************************************************************************)
(* The login dialog of the web application and the LNURL-auth sessions it  *)
(* asks the API server for.  The dialog polls the status of its session    *)
(* every two seconds, whether or not earlier polls were answered; an answer *)
(* is acted upon even when the dialog was closed or reopened meanwhile.     *)
(***************************************************************************)
EXTENDS LnurlAuth

VARIABLES
  open,    \* lnurlModalOpen
  screen,  \* lnurlStatus
  request, \* lnurlRequest.k1
  asked,   \* sessions the dialog asked for and has had no answer about
  heard,   \* polls of the mounted dialog; an unmounted one shows nothing any more
  user     \* the linking key the application is logged in with

client == <<open, screen, request, asked, heard, user>>

vars == <<server, client>>

Init ==
  /\ ServerInit
  /\ open = FALSE
  /\ screen = "idle"
  /\ request = None
  /\ asked = {}
  /\ heard = {}
  /\ user = None

Mounted == user = None

\* openLnurlModal, from the menu or, when the dialog shows a session it cannot go
\* on with, from Retry: GET /api/lnurl-auth/request is sent.
OpenDialog(k) ==
  /\ Mounted
  /\ ~open \/ (request # None /\ screen \in {"error", "expired", "timeout"})
  /\ status[k] = "none"
  /\ k \notin asked
  /\ open' = TRUE
  /\ screen' = "loading"
  /\ request' = None
  /\ asked' = asked \cup {k}
  /\ UNCHANGED <<server, heard, user>>

\* The session is there: whatever the dialog shows by now, it gets polled.
SessionAnswered(k) ==
  /\ k \in asked
  /\ status[k] # "none"
  /\ asked' = asked \ {k}
  /\ request' = k
  /\ screen' = "polling"
  /\ UNCHANGED <<server, open, heard, user>>

SessionFails(k) ==
  /\ k \in asked
  /\ asked' = asked \ {k}
  /\ screen' = "error"
  /\ UNCHANGED <<server, open, request, heard, user>>

CloseDialog ==
  /\ Mounted
  /\ open
  /\ open' = FALSE
  /\ screen' = "idle"
  /\ request' = None
  /\ UNCHANGED <<server, asked, heard, user>>

Polling == Mounted /\ open /\ screen = "polling" /\ request # None

Poll(t) ==
  /\ Polling
  /\ StartStatus(t, request)
  /\ heard' = heard \cup {t}
  /\ UNCHANGED <<open, screen, request, asked, user>>

\* The dialog's own clock: the session's deadline, or ninety seconds of polling.
GiveUp ==
  /\ Polling
  /\ screen' \in {"timeout"} \cup (IF request \in due THEN {"expired"} ELSE {})
  /\ UNCHANGED <<server, open, request, asked, heard, user>>

\* loginWithLnurl is the application's, and the dialog goes with the login screen.
LogIn(x) ==
  /\ user' = x
  /\ open' = FALSE
  /\ screen' = "idle"
  /\ request' = None
  /\ asked' = {}
  /\ heard' = {}

\* The answer to a poll, of whichever session; the request may also just fail.
PollAnswered(t) ==
  LET a == h[t].says IN
  /\ h[t].pc = "reply"
  /\ IF a.status = "VERIFIED" /\ a.key # None
     THEN LogIn(a.key)
     ELSE /\ screen' = IF t \notin heard THEN screen
                       ELSE IF a = NoAnswer THEN "error"
                       ELSE IF a.status = "EXPIRED" THEN "expired"
                       ELSE screen
          /\ heard' = heard \ {t}
          /\ UNCHANGED <<open, request, asked, user>>
  /\ End(t)
  /\ UNCHANGED <<status, key, due, signed, granted, rivals>>

LogOut ==
  /\ user # None
  /\ user' = None
  /\ UNCHANGED <<server, open, screen, request, asked, heard>>

Next ==
  \/ \E k \in asked : CreateSession(k) /\ UNCHANGED client
  \/ Outside /\ UNCHANGED client
  \/ \E t \in Requests : Serving(t) /\ UNCHANGED client
  \/ \E k \in Sessions : OpenDialog(k) \/ SessionAnswered(k) \/ SessionFails(k)
  \/ \E t \in Requests : Poll(t) \/ PollAnswered(t)
  \/ CloseDialog \/ GiveUp \/ LogOut

Spec == Init /\ [][Next]_vars

-----------------------------------------------------------------------------
(* Properties *)

TypeOK ==
  /\ ServerTypeOK
  /\ open \in BOOLEAN
  /\ screen \in {"idle", "loading", "polling", "expired", "timeout", "error"}
  /\ request \in Sessions \cup {None}
  /\ request # None => status[request] # "none"
  /\ asked \subseteq Sessions
  /\ heard \subseteq {t \in Requests : h[t].kind = "status"}
  /\ user # None => asked = {} /\ heard = {}
  /\ user \in Keys \cup {None}

\* Whoever gets logged in has signed the k1 of a session this application asked
\* for, however late the answer that said so.
LoginIsSigned == user # None => \E g \in signed : g.key = user

\* The server and the network run on: what is in flight is answered, the dialog's
\* timer ticks, and a database asked again and again does answer.
Fairness ==
  \A t \in Requests :
    /\ WF_vars(Serving(t) /\ UNCHANGED client)
    /\ WF_vars(PollAnswered(t))
    /\ SF_vars(Poll(t))
    /\ SF_vars(Look(t) /\ UNCHANGED client)

FairSpec == Spec /\ Fairness

\* A session verified while its dialog is open and polling logs the user in, unless
\* the dialog gives up or is closed or the deadline passes.
VerifiedLogsIn ==
  \A k \in Sessions :
    (Polling /\ request = k /\ status[k] = "VERIFIED")
      ~> (user # None \/ ~(Polling /\ request = k) \/ k \in due)

=============================================================================
