-------------------------------- MODULE Chat --------------------------------
(***************************************************************************)
(* The chat service: the server and the sessions of its users.             *)
(***************************************************************************)
EXTENDS ChatUser, FiniteSets

vars == <<streamVars, serverVars, userVars>>

Init == StreamsInit /\ ServerInit /\ UserInit

Server == ServerNext /\ UNCHANGED userVars

Users == UserNext /\ UNCHANGED serverVars

Next == Server \/ Users

Spec == Init /\ [][Next]_vars

\* The one thread of the server goes on with what it does, epoll_wait hands
\* it every descriptor that is ready in turn, and the epoll thread of a
\* client reads what comes.
Fairness ==
  /\ WF_vars(Continue /\ UNCHANGED userVars)
  /\ WF_vars(Incoming /\ UNCHANGED userVars)
  /\ \A k \in Sessions : /\ WF_vars(Visit(k) /\ UNCHANGED userVars)
                         /\ WF_vars(visitor(k) /\ UNCHANGED serverVars)

FairSpec == Spec /\ Fairness

-----------------------------------------------------------------------------
(* Types                                                                    *)

StreamsTypeOK ==
  /\ fd \in [Sessions -> 0 .. MaxFd]
  /\ backlog \in Seq(Sessions)
  /\ toServer \in [Sessions -> Seq(Requests)]
  /\ toClient \in [Sessions -> Seq(Replies)]
  /\ ending \in [Sessions -> Endings]

ServerTypeOK ==
  /\ pc \in {"wait", "reply", "login", "offline", "active", "down"}
  /\ conn \in 0 .. MaxFd /\ reply \in Replies
  /\ who \in Names /\ row \in Nat /\ actives \subseteq Names
  /\ lookup \in [Names -> 0 .. MaxFd]
  /\ password \in [Names -> Passwords \union {Absent}]
  /\ nickname \in [Names -> Nicknames]
  /\ mail \in [Names -> Seq(Rows)]
  /\ restarts \in 0 .. MaxRestarts
  /\ accepted \in [Names -> Seq(Messages)]
  /\ given \in [Names -> Seq(Messages)]

UserTypeOK ==
  /\ running \in [Sessions -> {"off", "on", "left"}]
  /\ account \in [Sessions -> Names]
  /\ passwd \in [Sessions -> Passwords]
  /\ asked \in [Sessions -> Int]
  /\ logged \in [Sessions -> BOOLEAN]
  /\ typed \in 0 .. MaxCommands
  /\ lastMsg \in 0 .. MaxMsg

\* Types of the variables; in particular a descriptor belongs to one session.
TypeOK ==
  /\ StreamsTypeOK /\ ServerTypeOK /\ UserTypeOK
  /\ \A j, k \in Sessions : fd[j] = fd[k] /\ fd[j] # 0 => j = k

-----------------------------------------------------------------------------
(* What the server promises                                                 *)

\* No message waits in the table for an account that is logged in: what is
\* stored is handed over by the login, and what comes later is relayed.
OnlineHasNoMail ==
  \A a \in Names :
    lookup[a] # 0 /\ mail[a] # <<>> => pc \in {"login", "offline"} /\ who = a

\* The rows the login under way has already written.
Handed(a) == IF pc = "offline" /\ who = a THEN row - 1 ELSE 0

\* The messages for an account are written to it in the order in which the
\* server took them, none twice and none left out but those in the table.
GivenInOrder ==
  restarts = 0 =>
    \A a \in Names :
      LET stored == [i \in 1 .. Len(mail[a]) |-> mail[a][i].msg]
      IN pc # "down" =>
           accepted[a] = given[a] \o SubSeq(stored, Handed(a) + 1, Len(stored))

\* Whatever stops the server, a message it took is in the table or has been
\* written to a connection of its receiver.
KeptOrGiven ==
  \A a \in Names : \A i \in DOMAIN accepted[a] :
    \/ \E j \in DOMAIN given[a] : given[a][j] = accepted[a][i]
    \/ \E j \in DOMAIN mail[a] : mail[a][j].msg = accepted[a][i]

\* An account in lookup is that of the user whose connection it names, and the
\* password the user gave is the one in the table: nobody can change it.
LookupIsTheUser ==
  \A a \in Names : lookup[a] # 0 =>
    \E k \in Sessions :
      /\ fd[k] = lookup[a] /\ account[k] = a
      /\ passwd[k] = password[a]

\* A message or the request of a peer reaches nobody but its receiver, also
\* when the descriptor of a session that has left is that of another one.
OnlyTheReceiver ==
  \A k \in Sessions : \A i \in DOMAIN toClient[k] :
    toClient[k][i].type \in {"SendMessage", "P2PRequest"} =>
      toClient[k][i].receiver = account[k]

Asks == {"Registion", "LoginIn", "RecoverPassword"}

\* Every register, login and recover is answered once.
AnsweredOnce ==
  \A k \in Sessions :
    fd[k] # 0 /\ running[k] = "on" =>
      asked[k] = Cardinality({i \in DOMAIN toServer[k] : toServer[k][i].type \in Asks})
                 + Cardinality({i \in DOMAIN toClient[k] : IsAnswer(toClient[k][i])})
                 + (IF conn = fd[k] /\ (pc = "login" \/ (pc = "reply" /\ IsAnswer(reply)))
                    THEN 1 ELSE 0)

-----------------------------------------------------------------------------
(* The service as a mailbox                                                 *)

Present == {a \in Names : lookup[a] # 0}
Box == [a \in Names |-> [i \in 1 .. Len(mail[a]) |-> mail[a][i].msg]]
Shown == [a \in Names |-> Handed(a)]

Mail == INSTANCE Mailbox WITH
  Accounts <- Names, Texts <- Messages,
  present <- Present, box <- Box, shown <- Shown, handed <- given

\* Table message, lookup and the handlers are a mailbox for each account:
\* whatever descriptors, logins and stops do, an account is handed its box
\* first, in order, and goes with an empty one.
ImplementsMailbox == Mail!Spec

-----------------------------------------------------------------------------
(* Liveness                                                                 *)

\* A user who stays gets an answer, unless the server goes down.
Answered ==
  \A k \in Sessions :
    asked[k] > 0 ~> (asked[k] = 0 \/ running[k] # "on" \/ pc = "down")

\* The mail of an account that logs in is handed over.
MailHandedOver ==
  \A a \in Names :
    (lookup[a] # 0 /\ mail[a] # <<>>) ~> (mail[a] = <<>> \/ pc = "down")

-----------------------------------------------------------------------------
(* What the repository says and the code does not do                        *)

\* A client that leaves takes nothing down with it: the visitor closes its
\* connection and goes on.
ServerGoesOn == pc # "down"

\* "Logged in elsewhwere" is answered for an account that has a connection.
ElsewhereIsTrue ==
  \A a \in Names : lookup[a] # 0 => \E k \in Sessions : fd[k] = lookup[a]

\* What is handed over to an account is what was stored for it: the sender
\* and the text are those of the message.
StoredAsSent ==
  pc = "offline" /\ row <= Len(mail[who]) =>
    LET r == mail[who][row]
    IN FromTable(who, r) = Message(r.msg, r.sender, who, "whole")
=============================================================================
