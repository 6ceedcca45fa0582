----------------------------- MODULE ChatServer -----------------------------
(***************************************************************************)
(* The chat server: the epoll loop and the visitor of server/server.cpp    *)
(* with the handlers of server/server_dataflow.cpp, in one thread.  A      *)
(* handler is one action up to its first write; the writes that follow are *)
(* actions of their own, so that a client may leave and the server may be  *)
(* stopped between them.  The tables of data/test.sql outlive the process. *)
(*                                                                         *)
(* Names, passwords and nicknames are numbers and 0 is the empty string,   *)
(* which is what a handler reads in a frame whose client has ended between *)
(* the two writes of send_data: the result of read_data is dropped.        *)
(***************************************************************************)
EXTENDS TCPStreams

CONSTANTS
  MaxName, MaxPass, MaxNick,  \* accounts, passwords and nicknames in use
  MaxMsg,                     \* messages
  Long,                       \* the messages longer than sizeof(size_t)
  Registered,                 \* accounts in the table at the start
  MaxRestarts                 \* times the server is stopped and started again

Names == 0 .. MaxName
Passwords == 0 .. MaxPass
Nicknames == 0 .. MaxNick
Messages == 0 .. MaxMsg
Absent == -1

ASSUME ChatAssumption ==
  /\ MaxFd \in Nat \ {0}
  /\ MaxName \in Nat \ {0} /\ MaxPass \in Nat \ {0} /\ MaxNick \in Nat \ {0}
  /\ MaxMsg \in Nat /\ MaxRestarts \in Nat
  /\ Long \subseteq Messages \ {0}
  /\ Registered \subseteq Names

VARIABLES
  pc,        \* "wait" in epoll_wait, "down", or the writes a handler goes on with
  conn,      \* the descriptor the handler answers
  reply,     \* the frame it answers with
  who,       \* the account that logs in
  row,       \* the row send_offline_message is at
  actives,   \* the accounts FindActiveRequest has still to list
  lookup,    \* map<string, int>: the descriptor of an account, 0 if not there
  password, nickname,  \* table accounts
  mail,      \* table message, by receiver
  restarts

\* What the server has done with the messages, by receiver: the ones it has
\* handled, and the ones it has written to the receiver's connection.
VARIABLES accepted, given

tableVars == <<password, nickname, mail>>
handlerVars == <<conn, reply, who, row, actives>>
serverVars == <<pc, conn, reply, who, row, actives, lookup, password, nickname,
                mail, restarts, accepted, given>>

-----------------------------------------------------------------------------
(* Frames                                                                   *)

RequestTypes == {"Registion", "LoginIn", "SendMessage", "P2PRequest",
                 "RecoverPassword", "FindActiveRequest"}

Requests ==
  [type : RequestTypes, account : Names, pass : Passwords, nick : Nicknames,
   receiver : Names, msg : Messages, whole : BOOLEAN]

Statuses == {"succceed", "exception", "elsewhere", "wrong", "recovered", "offline"}

Answer(status) == [type |-> "OpStatus", status |-> status]
Welcome == [type |-> "LoginReply"]
Active(name) == [type |-> "FindActiveReply", peer |-> name]
Relay(q) == [type |-> "P2PRequest", sender |-> q.account, receiver |-> q.receiver]
Message(m, from, to, text) ==
  [type |-> "SendMessage", msg |-> m, sender |-> from, receiver |-> to, text |-> text]

Replies ==
  [type : {"OpStatus"}, status : Statuses]
    \union {Welcome}
    \union [type : {"FindActiveReply"}, peer : Names]
    \union [type : {"P2PRequest"}, sender : Names, receiver : Names]
    \union [type : {"SendMessage"}, msg : Messages, sender : Names,
            receiver : Names, text : {"whole", "cut"}]

Rows == [msg : Messages, sender : Names]

\* StreamTransformationFilter is given sizeof(plain.size() + 1) bytes, and
\* column 1 of the SELECT is the receiver
FromTable(name, r) ==
  Message(r.msg, name, name, IF r.msg \in Long THEN "cut" ELSE "whole")

-----------------------------------------------------------------------------

ServerInit ==
  /\ pc = "wait"
  /\ conn = 0 /\ reply = Welcome /\ who = 0 /\ row = 0 /\ actives = {}
  /\ lookup = [a \in Names |-> 0]
  /\ password = [a \in Names |-> IF a \in Registered THEN 1 ELSE Absent]
  /\ nickname = [a \in Names |-> IF a \in Registered THEN 1 ELSE 0]
  /\ mail = [a \in Names |-> <<>>]
  /\ restarts = 0
  /\ accepted = [a \in Names |-> <<>>] /\ given = [a \in Names |-> <<>>]

Idle == conn' = 0 /\ reply' = Welcome /\ who' = 0 /\ row' = 0 /\ actives' = {}

\* Defective: the inserts are in a transaction nobody commits.
ExitRollsBack ==
  /\ pc' = "down"
  /\ lookup' = [a \in Names |-> 0]
  /\ mail' = [a \in Names |-> <<>>]
  /\ Idle
  /\ CloseAll
  /\ UNCHANGED <<password, nickname, accepted, given, restarts>>

\* exit(-1), SIGPIPE, or a signal from the operator
Exit ==
  /\ pc' = "down"
  /\ lookup' = [a \in Names |-> 0]
  /\ Idle
  /\ CloseAll
  /\ UNCHANGED <<tableVars, accepted, given, restarts>>

Incoming == pc = "wait" /\ Accept /\ UNCHANGED serverVars

\* get_type and read_data; the request is what the handler then sees
Request(k) == Head(toServer[k])

Read(k, type) ==
  /\ pc = "wait" /\ Readable(k) /\ Request(k).type = type
  /\ TakeFrame(k)
  /\ UNCHANGED <<fd, backlog, restarts>>

AnswerWith(k, status) ==
  /\ pc' = "reply" /\ conn' = fd[k] /\ reply' = Answer(status)
  /\ who' = 0 /\ row' = 0 /\ actives' = {}
  /\ UNCHANGED <<toClient, ending>>

-----------------------------------------------------------------------------
(* The handlers                                                             *)

\* Defective: an account that exists is not answered.
RegistionSilent(k) ==
  LET q == Request(k)
      new == password[q.account] = Absent
  IN /\ Read(k, "Registion")
     /\ IF new
        THEN /\ password' = [password EXCEPT ![q.account] = q.pass]
             /\ nickname' = [nickname EXCEPT ![q.account] = q.nick]
             /\ AnswerWith(k, "succceed")
        ELSE UNCHANGED <<password, nickname, pc, handlerVars, toClient, ending>>
     /\ UNCHANGED <<lookup, mail, accepted, given>>

Registion(k) ==
  LET q == Request(k)
      new == password[q.account] = Absent
  IN /\ Read(k, "Registion")
     /\ IF new
        THEN /\ password' = [password EXCEPT ![q.account] = q.pass]
             /\ nickname' = [nickname EXCEPT ![q.account] = q.nick]
        ELSE UNCHANGED <<password, nickname>>
     /\ AnswerWith(k, IF new THEN "succceed" ELSE "exception")
     /\ UNCHANGED <<lookup, mail, accepted, given>>

\* an account that is not there has no password to compare with
LoginGranted(q) == lookup[q.account] = 0 /\ password[q.account] = q.pass

\* Defective: a login that is refused is not answered.
LoginInSilent(k) ==
  LET q == Request(k)
  IN /\ Read(k, "LoginIn")
     /\ IF LoginGranted(q)
        THEN /\ lookup' = [lookup EXCEPT ![q.account] = fd[k]]
             /\ pc' = "login" /\ conn' = fd[k] /\ who' = q.account /\ row' = 1
             /\ UNCHANGED <<reply, actives, toClient, ending>>
        ELSE UNCHANGED <<pc, handlerVars, lookup, toClient, ending>>
     /\ UNCHANGED <<tableVars, accepted, given>>

LoginIn(k) ==
  LET q == Request(k)
  IN /\ Read(k, "LoginIn")
     /\ IF LoginGranted(q)
        THEN /\ lookup' = [lookup EXCEPT ![q.account] = fd[k]]
             /\ pc' = "login" /\ conn' = fd[k] /\ who' = q.account /\ row' = 1
             /\ UNCHANGED <<reply, actives, toClient, ending>>
        ELSE /\ AnswerWith(k, IF lookup[q.account] # 0 THEN "elsewhere" ELSE "wrong")
             /\ UNCHANGED lookup
     /\ UNCHANGED <<tableVars, accepted, given>>

Deliver(a, m) ==
  /\ accepted' = [accepted EXCEPT ![a] = Append(@, m)]
  /\ given' = [given EXCEPT ![a] = Append(@, m)]

Store(q) ==
  /\ mail' = [mail EXCEPT ![q.receiver] =
                Append(@, [msg |-> q.msg, sender |-> q.account])]
  /\ accepted' = [accepted EXCEPT ![q.receiver] = Append(@, q.msg)]

SendMessage(k) ==
  LET q == Request(k)
      to == lookup[q.receiver]
  IN \/ /\ Read(k, "SendMessage") /\ to # 0
        /\ Send(to, Message(q.msg, q.account, q.receiver, "whole"))
        /\ Deliver(q.receiver, q.msg)
        /\ UNCHANGED <<pc, handlerVars, lookup, tableVars>>
     \/ /\ Read(k, "SendMessage") /\ to = 0
        /\ Store(q)
        /\ UNCHANGED <<pc, handlerVars, lookup, password, nickname, given,
                       toClient, ending>>

P2PRequest(k) ==
  LET q == Request(k)
      to == lookup[q.receiver]
  IN /\ Read(k, "P2PRequest")
     /\ IF to # 0
        THEN ~NoPeer(k) /\ Send(to, Relay(q)) /\ UNCHANGED <<pc, handlerVars>>
        ELSE AnswerWith(k, "offline")
     /\ UNCHANGED <<lookup, tableVars, accepted, given>>

\* Defective: also while the account is logged in.
RecoverAnyTime(q) == password[q.account] # Absent /\ nickname[q.account] = q.nick

RecoverGranted(q) ==
  /\ lookup[q.account] = 0
  /\ password[q.account] # Absent /\ nickname[q.account] = q.nick

RecoverPassword(k) ==
  LET q == Request(k)
  IN /\ Read(k, "RecoverPassword")
     /\ password' = IF RecoverGranted(q)
                    THEN [password EXCEPT ![q.account] = q.pass] ELSE password
     /\ AnswerWith(k, CASE lookup[q.account] # 0 -> "elsewhere"
                        [] RecoverGranted(q)     -> "recovered"
                        [] OTHER                 -> "wrong")
     /\ UNCHANGED <<lookup, nickname, mail, accepted, given>>

FindActiveRequest(k) ==
  /\ Read(k, "FindActiveRequest")
  /\ actives' = {a \in Names \ {Request(k).account} : lookup[a] # 0}
  /\ pc' = "active" /\ conn' = fd[k]
  /\ UNCHANGED <<reply, who, row, toClient, ending, lookup, tableVars, accepted, given>>

\* the loop over lookup ends with the first entry it erases
FirstOf(f) ==
  {a \in Names : lookup[a] = f /\ \A b \in Names : lookup[b] = f => a <= b}

\* Defective: the entry stays.
ForgetNothing(k) == UNCHANGED lookup

Forget(k) == lookup' = [a \in Names |-> IF a \in FirstOf(fd[k]) THEN 0 ELSE lookup[a]]

ClientIsDown(k) ==
  /\ pc = "wait" /\ AtEof(k)
  /\ Forget(k)
  /\ CloseFd(k)
  /\ UNCHANGED <<backlog, toServer, toClient, ending, pc, handlerVars, tableVars,
                 restarts, accepted, given>>

\* a read or a write of the handler that fails, and getpeername
VisitFails(k) ==
  /\ pc = "wait"
  /\ \/ ReadFails(k)
     \/ /\ Readable(k) /\ Request(k).type \in {"SendMessage", "P2PRequest"}
        /\ lookup[Request(k).receiver] # 0
        /\ \/ WriteFails(lookup[Request(k).receiver])
           \/ Request(k).type = "P2PRequest" /\ NoPeer(k)
  /\ Exit

-----------------------------------------------------------------------------
(* The writes a handler goes on with                                        *)

Return == pc' = "wait" /\ Idle

SendReply ==
  /\ pc = "reply"
  /\ Send(conn, reply)
  /\ Return
  /\ UNCHANGED <<fd, backlog, toServer, lookup, tableVars, restarts, accepted, given>>

\* Defective: nobody looks for messages.
SendWelcomeOnly ==
  /\ pc = "login"
  /\ Send(conn, Welcome)
  /\ Return
  /\ UNCHANGED <<fd, backlog, toServer, lookup, tableVars, restarts, accepted, given>>

SendWelcome ==
  /\ pc = "login"
  /\ Send(conn, Welcome)
  /\ pc' = "offline"
  /\ UNCHANGED <<fd, backlog, toServer, handlerVars, lookup, tableVars, restarts,
                 accepted, given>>

\* Defective: the rows in the order of the newest.
NewestRow == mail[who][Len(mail[who]) - row + 1]

\* the row that next_row comes to, in the order of rowid
NextRow == mail[who][row]

SendOffline ==
  /\ pc = "offline" /\ row <= Len(mail[who])
  /\ Send(conn, FromTable(who, NextRow))
  /\ given' = [given EXCEPT ![who] = Append(@, NextRow.msg)]
  /\ row' = row + 1
  /\ UNCHANGED <<fd, backlog, toServer, pc, conn, reply, who, actives, lookup,
                 tableVars, restarts, accepted>>

\* Defective: WHERE sender=? of the DELETE.
DeleteSent ==
  /\ pc = "offline" /\ row > Len(mail[who])
  /\ mail' = [a \in Names |-> SelectSeq(mail[a], LAMBDA r : r.sender # who)]
  /\ Return
  /\ UNCHANGED <<streamVars, lookup, password, nickname, restarts, accepted, given>>

DeleteOffline ==
  /\ pc = "offline" /\ row > Len(mail[who])
  /\ mail' = [mail EXCEPT ![who] = <<>>]
  /\ Return
  /\ UNCHANGED <<streamVars, lookup, password, nickname, restarts, accepted, given>>

SendActive ==
  /\ pc = "active" /\ actives # {}
  /\ \E a \in actives :
       /\ \A b \in actives : a <= b
       /\ Send(conn, Active(a))
       /\ actives' = actives \ {a}
  /\ UNCHANGED <<fd, backlog, toServer, pc, conn, reply, who, row, lookup,
                 tableVars, restarts, accepted, given>>

ActiveDone ==
  /\ pc = "active" /\ actives = {}
  /\ Return
  /\ UNCHANGED <<streamVars, lookup, tableVars, restarts, accepted, given>>

Writing ==
  \/ pc \in {"reply", "login"}
  \/ pc = "offline" /\ row <= Len(mail[who])
  \/ pc = "active" /\ actives # {}

AnswerFails == Writing /\ WriteFails(conn) /\ Exit

-----------------------------------------------------------------------------
(* The process                                                              *)

\* the server has no command to stop it
Kill == pc # "down" /\ restarts < MaxRestarts /\ Exit

Restart ==
  /\ pc = "down" /\ restarts < MaxRestarts
  /\ pc' = "wait"
  /\ restarts' = restarts + 1
  /\ UNCHANGED <<handlerVars, lookup, tableVars, accepted, given, streamVars>>

Visit(k) ==
  \/ Registion(k) \/ LoginIn(k) \/ SendMessage(k) \/ P2PRequest(k)
  \/ RecoverPassword(k) \/ FindActiveRequest(k)
  \/ ClientIsDown(k) \/ VisitFails(k)

Continue ==
  \/ SendReply \/ SendWelcome \/ SendOffline \/ DeleteOffline
  \/ SendActive \/ ActiveDone \/ AnswerFails

ServerNext == Incoming \/ (\E k \in Sessions : Visit(k)) \/ Continue \/ Kill \/ Restart
=============================================================================
