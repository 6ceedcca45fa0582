------------------------------ MODULE ChatUser ------------------------------
(***************************************************************************)
(* The client program towards the server: the commands of the main thread  *)
(* (client/client.cpp) and the replies its epoll thread takes              *)
(* (client/client_dataflow.cpp).  log_in sets global.account and           *)
(* global.passwd before the server has answered.  What a client does       *)
(* beside this with its peers is not in this module.                       *)
(***************************************************************************)
EXTENDS ChatServer

CONSTANTS
  Commands,     \* the frames the users send: a subset of RequestTypes
  Tears,        \* the frames a client may end in the middle of
  MaxCommands,  \* commands typed in all sessions together
  Patient       \* users wait for the answer to register, login and recover,
                \* and log in once in a session

ASSUME UserAssumption ==
  /\ Commands \subseteq RequestTypes /\ Tears \subseteq RequestTypes
  /\ MaxCommands \in Nat /\ Patient \in BOOLEAN

VARIABLES
  running,   \* "off", "on" and "left": the life of the process
  account,   \* global.account
  passwd,    \* global.passwd
  asked,     \* answers to register, login and recover the user waits for
  logged,    \* a LoginReply has been read
  typed,     \* commands typed
  lastMsg    \* the number of the last message of all users

userVars == <<running, account, passwd, asked, logged, typed, lastMsg>>

UserInit ==
  /\ running = [k \in Sessions |-> "off"]
  /\ account = [k \in Sessions |-> 0]
  /\ passwd = [k \in Sessions |-> 0]
  /\ asked = [k \in Sessions |-> 0]
  /\ logged = [k \in Sessions |-> FALSE]
  /\ typed = 0
  /\ lastMsg = 0

Frame(type, a, p, n, to, m, all) ==
  [type |-> type, account |-> a, pass |-> p, nick |-> n, receiver |-> to,
   msg |-> m, whole |-> all]

\* connect fails when there is no server, and the process exits
Start(k) ==
  /\ running[k] = "off" /\ pc # "down"
  /\ Connect(k)
  /\ running' = [running EXCEPT ![k] = "on"]
  /\ UNCHANGED <<account, passwd, asked, logged, typed, lastMsg>>

-----------------------------------------------------------------------------
(* Commands                                                                 *)

Typing(k, type) ==
  /\ running[k] = "on" /\ type \in Commands
  /\ typed < MaxCommands /\ typed' = typed + 1
  /\ UNCHANGED <<running, logged>>

Asking(k, type) ==
  /\ Typing(k, type)
  /\ Patient => asked[k] = 0
  /\ asked' = [asked EXCEPT ![k] = @ + 1]
  /\ UNCHANGED lastMsg

registion(k) ==
  /\ Asking(k, "Registion")
  /\ \E a \in Names \ {0}, p \in Passwords \ {0}, n \in Nicknames \ {0} :
       Put(k, Frame("Registion", a, p, n, 0, 0, TRUE))
  /\ UNCHANGED <<account, passwd>>

log_in(k) ==
  /\ Asking(k, "LoginIn")
  /\ Patient => ~logged[k]
  /\ \E a \in Names \ {0}, p \in Passwords \ {0} :
       /\ account' = [account EXCEPT ![k] = a]
       /\ passwd' = [passwd EXCEPT ![k] = p]
       /\ Put(k, Frame("LoginIn", a, p, 0, 0, 0, TRUE))

recoverPassword(k) ==
  /\ Asking(k, "RecoverPassword")
  /\ \E a \in Names \ {0}, p \in Passwords \ {0}, n \in Nicknames \ {0} :
       Put(k, Frame("RecoverPassword", a, p, n, 0, 0, TRUE))
  /\ UNCHANGED <<account, passwd>>

sendmsg(k) ==
  /\ Typing(k, "SendMessage")
  /\ lastMsg < MaxMsg /\ lastMsg' = lastMsg + 1
  /\ \E to \in Names \ {0} :
       Put(k, Frame("SendMessage", account[k], 0, 0, to, lastMsg + 1, TRUE))
  /\ UNCHANGED <<account, passwd, asked>>

p2p_request(k) ==
  /\ Typing(k, "P2PRequest")
  /\ \E to \in Names \ {0} :
       Put(k, Frame("P2PRequest", account[k], 0, 0, to, 0, TRUE))
  /\ UNCHANGED <<account, passwd, asked, lastMsg>>

active(k) ==
  /\ Typing(k, "FindActiveRequest")
  /\ Put(k, Frame("FindActiveRequest", account[k], 0, 0, 0, 0, TRUE))
  /\ UNCHANGED <<account, passwd, asked, lastMsg>>

-----------------------------------------------------------------------------
(* Replies, and the end                                                     *)

IsAnswer(frame) ==
  \/ frame.type = "LoginReply"
  \/ frame.type = "OpStatus" /\ frame.status # "offline"

visitor(k) ==
  /\ running[k] = "on"
  /\ Get(k)
  /\ asked' = [asked EXCEPT ![k] = IF IsAnswer(Head(toClient[k])) THEN @ - 1 ELSE @]
  /\ logged' = [logged EXCEPT ![k] = @ \/ Head(toClient[k]).type = "LoginReply"]
  /\ UNCHANGED <<running, account, passwd, typed, lastMsg>>

\* The process ends between two commands, or between the two writes of one.
Leave(k) ==
  /\ running[k] = "on"
  /\ running' = [running EXCEPT ![k] = "left"]
  /\ \/ Hangup(k, <<>>)
     \/ \E t \in Tears : Hangup(k, <<Frame(t, 0, 0, 0, 0, 0, FALSE)>>)
  /\ UNCHANGED <<account, passwd, asked, logged, typed, lastMsg>>

UserNext ==
  \E k \in Sessions :
    \/ Start(k) \/ Leave(k) \/ visitor(k)
    \/ registion(k) \/ log_in(k) \/ recoverPassword(k)
    \/ sendmsg(k) \/ p2p_request(k) \/ active(k)
=============================================================================
