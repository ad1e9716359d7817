----------------------------- MODULE TcpServerProofs -----------------------------
(***************************************************************************)
(* Proofs about TcpServer, for any number of calls of start() and of       *)
(* clients.                                                                *)
(***************************************************************************)
EXTENDS TcpServer, SequenceTheorems, TLAPS

Calls == {"close", "stopAll", "sweep", "clear", "open", "startAccept"}

(* What the GUI thread does now; the calls of a button come in this order.   *)
Stage == IF todo = <<>> THEN "none" ELSE todo[1]

(* What may come behind a call of a button. *)
Follows(first, second) ==
    \/ first = "close" /\ second = "stopAll"
    \/ first = "stopAll" /\ second = "sweep"
    \/ first = "sweep" /\ second = "clear"
    \/ first = "clear" /\ second = "open"
    \/ first = "open" /\ second = "startAccept"

(* The button in hand will start an accept loop. *)
WillAccept == \E i \in 1 .. Len(todo) : todo[i] = "startAccept"

(* The calls follow each other to the last; the acceptor stays closed from   *)
(* close() to open().                                                        *)
CallsInv ==
    /\ \A i \in 1 .. Len(todo) - 1 : Follows(todo[i], todo[i + 1])
    /\ todo # <<>> => todo[Len(todo)] \in {"clear", "startAccept"}
    /\ Stage \in {"stopAll", "sweep", "clear", "open"} => acceptor = "closed"

(* Every start() has an accept loop for itself. *)
LoopsInv ==
    /\ WillAccept => starts < MaxStarts
    /\ \A i \in Loops :
           /\ i > starts => loop[i].accept = "over"
           /\ loop[i].accept = "ok" => loop[i].client \in 1 .. accepted

(* A handler of an accept has its loop, which is over until it is rearmed;   *)
(* the others have a client only.                                            *)
StrandInv ==
    /\ strand.at = "idle" => strand.loop = 0
    /\ strand.at # "idle" => strand.client \in 1 .. accepted
    /\ strand.at \in {"insert", "start", "rearm"} => strand.loop # 0
    /\ strand.at \in {"stop", "tell", "erase"} => strand.loop = 0
    /\ strand.loop # 0 => strand.loop <= starts /\ loop[strand.loop].accept = "over"
    /\ strand.at = "rearm" => client[strand.client].read # "none"
    /\ strand.at \in {"tell", "erase"} => client[strand.client].socket = "closed"

(* The clients accepted are the first ones. *)
ClientsInv ==
    /\ closing <= accepted
    /\ \A c \in Clients :
           /\ c > accepted => client[c].socket = "none" /\ client[c].read = "none"
           /\ client[c].read = "aborted" => client[c].socket = "closed"

(* The inductive invariant that the theorems share. *)
ServerInv == TypeOK /\ CallsInv /\ LoopsInv /\ StrandInv /\ ClientsInv

(* A client that is erased has been taken from the consoles before. *)
ConsolesInv ==
    /\ ConsolesHaveClients
    /\ strand.at = "erase" => strand.client \notin consoles \ orphans

(* A closed acceptor has no handler on its way to the set, which is empty    *)
(* once stop() has run.                                                      *)
ClosedInv ==
    acceptor = "closed" =>
        /\ strand.loop = 0
        /\ Stage \in {"stopAll", "sweep", "clear"} \/ connections = {}

(* stopAll() closes every client of the set before the set is cleared.       *)
SweptInv ==
    /\ Stage = "sweep" =>
           \A c \in connections :
               client[c].socket = "open" => c \in sweep \/ c = closing
    /\ Stage = "clear" => \A c \in connections : client[c].socket # "open"

(* An open connection is in the set or on its way there. *)
KnownInv ==
    \A c \in Clients :
        client[c].socket = "open" =>
            \/ c \in connections
            \/ \E i \in Loops : loop[i].accept = "ok" /\ loop[i].client = c
            \/ strand.at = "insert" /\ strand.client = c

(* What StopIsThorough needs of the stages of stop() before it is at rest. *)
StopInv == ~overtaken => ClosedInv /\ SweptInv /\ KnownInv

-------------------------------------------------------------------------------
(* The calls of the buttons, one after the other. *)
LEMMA ButtonCalls ==
    /\ StopCalls \in Seq(Calls) /\ Len(StopCalls) = 4 /\ StopCalls # <<>>
    /\ StopCalls[1] = "close" /\ StopCalls[2] = "stopAll"
    /\ StopCalls[3] = "sweep" /\ StopCalls[4] = "clear"
    /\ StartCalls \in Seq(Calls) /\ Len(StartCalls) = 6 /\ StartCalls # <<>>
    /\ \A i \in 1 .. 4 : StartCalls[i] = StopCalls[i]
    /\ StartCalls[5] = "open" /\ StartCalls[6] = "startAccept"
<1>1. /\ StopCalls \in Seq(Calls) /\ Len(StopCalls) = 4 /\ StopCalls # <<>>
      /\ StopCalls[1] = "close" /\ StopCalls[2] = "stopAll"
      /\ StopCalls[3] = "sweep" /\ StopCalls[4] = "clear"
  BY DEF StopCalls, Calls
<1> DEFINE last == <<"open", "startAccept">>
<1>2. last \in Seq(Calls) /\ Len(last) = 2 /\ last[1] = "open" /\ last[2] = "startAccept"
  BY DEF Calls
<1>3. StartCalls = StopCalls \o last
  BY DEF StartCalls
<1> HIDE DEF last
<1>4. /\ StartCalls \in Seq(Calls) /\ Len(StartCalls) = 6
      /\ \A i \in 1 .. 6 : StartCalls[i] = IF i <= 4 THEN StopCalls[i] ELSE last[i - 4]
  <2>1. /\ StopCalls \o last \in Seq(Calls)
        /\ Len(StopCalls \o last) = Len(StopCalls) + Len(last)
        /\ \A i \in 1 .. Len(StopCalls) + Len(last) :
               (StopCalls \o last)[i] = IF i <= Len(StopCalls) THEN StopCalls[i]
                                        ELSE last[i - Len(StopCalls)]
    BY <1>1, <1>2, ConcatProperties, Zenon
  <2> HIDE DEF StopCalls
  <2> QED
    BY <1>1, <1>2, <1>3, <2>1, SMTT(20)
<1>5. StartCalls # <<>>
  <2>1. Len(<<>>) = 0
    OBVIOUS
  <2> QED
    BY <1>4, <2>1
<1> QED
  BY <1>1, <1>2, <1>4

(* What the rest of the calls looks like once one of them is done. *)
LEMMA NextCall ==
    ASSUME TypeOK, CallsInv, NEW step, Doing(step), todo' = Tail(todo)
    PROVE  /\ todo' \in Seq(Calls)
           /\ Stage = step
           /\ Stage' = "none" \/ Follows(step, Stage')
           /\ Stage' = "none" => step \in {"clear", "startAccept"}
           /\ \A i \in 1 .. Len(todo') - 1 : Follows(todo'[i], todo'[i + 1])
           /\ todo' # <<>> => todo'[Len(todo')] \in {"clear", "startAccept"}
           /\ WillAccept' => WillAccept /\ step # "startAccept"
<1>1. todo \in Seq(Calls) /\ todo # <<>> /\ Head(todo) = step
  BY DEF TypeOK, Doing, Calls
<1>2. /\ todo' \in Seq(Calls) /\ Len(todo') = Len(todo) - 1
      /\ \A i \in 1 .. Len(todo') : todo'[i] = todo[i + 1]
      /\ Head(todo) = todo[1]
  BY <1>1, HeadTailProperties
<1>3. Len(todo) \in Nat \ {0} /\ (todo' = <<>> <=> Len(todo') = 0)
  BY <1>2, LenProperties
<1>4. \A i \in 1 .. Len(todo) : todo[i] \in Calls
  BY <1>1, ElementOfSeq
<1>5. Stage = step /\ todo[1] = step
  BY <1>1, <1>2 DEF Stage
<1>6. \A i \in 1 .. Len(todo') - 1 : Follows(todo'[i], todo'[i + 1])
  BY <1>2, <1>3 DEF CallsInv
<1>7. todo' # <<>> => todo'[Len(todo')] \in {"clear", "startAccept"}
  BY <1>1, <1>2, <1>3 DEF CallsInv
<1>8. Stage' = "none" => todo' = <<>>
  <2>1. todo' # <<>> => todo'[1] \in Calls
    BY <1>2, <1>3, <1>4
  <2> QED
    BY <2>1 DEF Stage, Calls
<1>9. Stage' = "none" \/ Follows(step, Stage')
  <2>1. todo' # <<>> => todo'[1] = todo[2] /\ Follows(todo[1], todo[2])
    BY <1>2, <1>3 DEF CallsInv
  <2> QED
    BY <1>5, <2>1 DEF Stage
<1>10. Stage' = "none" => step \in {"clear", "startAccept"}
  BY <1>3, <1>5, <1>8 DEF CallsInv
<1>11. WillAccept' => WillAccept
  BY <1>2, <1>3 DEF WillAccept
<1>12. step = "startAccept" => ~WillAccept'
  <2>1. step = "startAccept" => todo' = <<>>
    BY <1>9, <1>8 DEF Follows
  <2> QED
    BY <1>3, <2>1 DEF WillAccept
<1> QED
  BY <1>2, <1>5, <1>6, <1>7, <1>9, <1>10, <1>11, <1>12

(* An open() that fails leaves nothing to do. *)
LEMMA OpenIsLast ==
    ASSUME TypeOK, CallsInv, Doing("open")
    PROVE  Tail(Tail(todo)) = <<>>
<1>1. todo \in Seq(Calls) /\ todo # <<>> /\ Head(todo) = "open"
  BY DEF TypeOK, Doing, Calls
<1>2. /\ Tail(todo) \in Seq(Calls) /\ Len(Tail(todo)) = Len(todo) - 1
      /\ Head(todo) = todo[1] /\ Len(todo) \in Nat \ {0}
  BY <1>1
<1>3. Len(todo) # 1
  BY <1>1, <1>2 DEF CallsInv
<1>4. todo[2] = "startAccept"
  BY <1>1 DEF CallsInv, Follows
<1>5. Len(todo) = 2
  <2>1. SUFFICES ASSUME Len(todo) >= 3 PROVE FALSE
    BY <1>2, <1>3
  <2>2. 2 \in 1 .. Len(todo) - 1 /\ 2 + 1 = 3
    BY <1>2, <2>1
  <2>3. Follows(todo[2], todo[2 + 1])
    BY <2>2 DEF CallsInv
  <2> QED
    BY <1>4, <2>3 DEF Follows
<1>6. Tail(todo) # <<>>
  <2>1. \A s \in Seq(Calls) : Len(s) = 1 => s # <<>>
    OBVIOUS
  <2>2. Len(Tail(todo)) = 1
    BY <1>2, <1>5
  <2> QED
    BY <1>2, <2>1, <2>2, Zenon
<1>7. Tail(Tail(todo)) \in Seq(Calls) /\ Len(Tail(Tail(todo))) = 0
  BY <1>2, <1>5, <1>6
<1> QED
  BY <1>7, EmptySeq

(* A call that is done is one of those that were left. *)
LEMMA StartAcceptIsLeft == ASSUME TypeOK, Doing("startAccept") PROVE WillAccept
<1>1. todo \in Seq(Calls) /\ todo # <<>> /\ Head(todo) = "startAccept"
  BY DEF TypeOK, Doing, Calls
<1>2. Head(todo) = todo[1] /\ Len(todo) \in Nat \ {0}
  BY <1>1, HeadTailProperties, EmptySeq
<1> QED
  BY <1>1, <1>2 DEF WillAccept

(* The types, with what the bounds mean. *)
LEMMA Types ==
    ASSUME ServerInv
    PROVE  /\ TypeOK /\ CallsInv /\ LoopsInv /\ StrandInv /\ ClientsInv
           /\ MaxStarts \in Nat /\ MaxClients \in Nat
           /\ Loops = 1 .. MaxStarts /\ Clients = 1 .. MaxClients
           /\ loop \in [Loops -> Loop] /\ client \in [Clients -> Client]
           /\ starts \in 0 .. MaxStarts /\ accepted \in 0 .. MaxClients
           /\ 1 .. accepted \subseteq Clients
           /\ strand \in [at : {"idle", "insert", "start", "read", "rearm", "stop", "tell",
                                 "erase"},
                           client : 0 .. MaxClients, loop : 0 .. MaxStarts]
BY BoundsAssumption DEF ServerInv, TypeOK, Clients, Loops

(* What a handler of an accept does, whichever way it ends. *)
LEMMA AcceptStep ==
    ASSUME ServerInv, NEW i \in Loops, OnAccept(i)
    PROVE  /\ strand.at = "idle" /\ strand.loop = 0
           /\ UNCHANGED <<acceptor, starts, accepted, connections, todo, sweep, closing>>
           /\ UNCHANGED <<overtaken, consoles, orphans>>
           /\ loop[i].accept # "over" /\ i <= starts
           /\ loop[i].accept = "ok" => loop[i].client \in 1 .. accepted
           /\ loop' \in [Loops -> Loop] /\ loop'[i].accept = "over"
           /\ \A j \in Loops : j # i => loop'[j] = loop[j]
           /\ client' \in [Clients -> Client]
           /\ \A c \in Clients :
                  /\ client'[c].read = client[c].read
                  /\ client'[c].do_run = client[c].do_run
                  /\ c > accepted => client'[c] = client[c]
                  /\ client'[c].socket \in {client[c].socket, "closed"}
           /\ \/ UNCHANGED strand
              \/ /\ loop[i].accept = "ok" /\ acceptor # "closed"
                 /\ strand' = [at |-> "insert", client |-> loop[i].client, loop |-> i]
           /\ loop[i].accept = "ok" =>
                  \/ client'[loop[i].client].socket = "closed"
                  \/ strand'.at = "insert" /\ strand'.client = loop[i].client
<1>0. /\ StrandInv /\ LoopsInv /\ Loops = 1 .. MaxStarts /\ Clients = 1 .. MaxClients
      /\ loop \in [Loops -> Loop] /\ client \in [Clients -> Client]
      /\ 1 .. accepted \subseteq Clients
      /\ starts \in 0 .. MaxStarts /\ accepted \in 0 .. MaxClients
      /\ MaxStarts \in Nat /\ MaxClients \in Nat
  BY Types
<1>1. /\ strand.at = "idle" /\ strand.loop = 0
      /\ UNCHANGED <<acceptor, starts, accepted, connections, todo, sweep, closing>>
      /\ UNCHANGED <<overtaken, consoles, orphans>>
      /\ loop[i].accept # "over" /\ i <= starts
      /\ loop[i].accept = "ok" => loop[i].client \in 1 .. accepted
  BY <1>0 DEF OnAccept, StrandIdle, guiVars, wins, StrandInv, LoopsInv
<1>2. /\ loop' \in [Loops -> Loop] /\ loop'[i].accept = "over"
      /\ \A j \in Loops : j # i => loop'[j] = loop[j]
  <2>1. CASE loop' = [loop EXCEPT ![i] = [accept |-> "over", client |-> 0]]
    BY <1>0, <2>1 DEF Loop
  <2>2. CASE loop' = [loop EXCEPT ![i].accept = "over"]
    BY <1>0, <2>2 DEF Loop
  <2> QED
    BY <2>1, <2>2 DEF OnAccept, AcceptDropped, AcceptRefused, AcceptTaken
<1>3. CASE UNCHANGED client
  <2>1. \A c \in Clients : client'[c].socket \in {client[c].socket, "closed"}
    BY <1>3
  <2>2. \/ UNCHANGED strand /\ loop[i].accept # "ok"
        \/ /\ loop[i].accept = "ok" /\ acceptor # "closed"
           /\ strand' = [at |-> "insert", client |-> loop[i].client, loop |-> i]
        \/ /\ loop[i].accept = "ok" /\ UNCHANGED strand
           /\ client' = [client EXCEPT ![loop[i].client].socket = "closed"]
    BY DEF OnAccept, AcceptDropped, AcceptRefused, AcceptTaken
  <2>3. ASSUME loop[i].accept = "ok",
               client' = [client EXCEPT ![loop[i].client].socket = "closed"]
        PROVE  client'[loop[i].client].socket = "closed"
    BY <1>0, <1>1, <2>3 DEF Client
  <2> QED
    BY <1>0, <1>1, <1>2, <1>3, <2>2, <2>3
<1>4. CASE /\ loop[i].accept = "ok" /\ UNCHANGED strand
           /\ client' = [client EXCEPT ![loop[i].client].socket = "closed"]
  <2>1. client' \in [Clients -> Client]
    <3>1. \A k \in Client : [k EXCEPT !.socket = "closed"] \in Client
      BY DEF Client
    <3>2. loop[i].client \in Clients
      BY <1>0, <1>1, <1>4
    <3> QED
      BY <1>0, <1>4, <3>1, <3>2
  <2>2. ASSUME NEW c \in Clients
        PROVE  client'[c] = IF c = loop[i].client THEN [client[c] EXCEPT !.socket = "closed"]
                            ELSE client[c]
    BY <1>0, <1>4
  <2>3. ASSUME NEW c \in Clients
        PROVE  /\ client'[c].read = client[c].read
               /\ client'[c].do_run = client[c].do_run
               /\ c > accepted => client'[c] = client[c]
               /\ client'[c].socket \in {client[c].socket, "closed"}
               /\ c = loop[i].client => client'[c].socket = "closed"
    <3>1. client[c] \in Client
      BY <1>0
    <3> QED
      BY <1>0, <1>1, <1>4
  <2>4. client'[loop[i].client].socket = "closed"
    BY <1>0, <1>1, <1>4
  <2> QED
    BY <1>1, <1>2, <1>4, <2>1, <2>3
<1> QED
  BY <1>3, <1>4 DEF OnAccept, AcceptDropped, AcceptRefused, AcceptTaken

(* What the handlers and the sweep of stop() make of a client is one still.  *)
LEMMA ClientParts ==
    ASSUME NEW k \in Client
    PROVE  /\ \A s \in {"none", "open", "closed"} : [k EXCEPT !.socket = s] \in Client
           /\ \A b \in BOOLEAN : [k EXCEPT !.do_run = b] \in Client
           /\ \A r \in {"none", "pending", "data", "failed", "aborted"} :
                  [k EXCEPT !.read = r] \in Client
           /\ ClosedClient(k) \in Client
<1>1. ASSUME NEW s \in {"none", "open", "closed"}
      PROVE  [k EXCEPT !.socket = s] \in Client
  BY DEF Client
<1>2. ASSUME NEW b \in BOOLEAN
      PROVE  [k EXCEPT !.do_run = b] \in Client
  BY DEF Client
<1>3. ASSUME NEW r \in {"none", "pending", "data", "failed", "aborted"}
      PROVE  [k EXCEPT !.read = r] \in Client
  BY DEF Client
<1>4. ClosedClient(k) \in Client
  <2>1. [k EXCEPT !.socket = "closed", !.read = "aborted"] \in Client
    BY DEF Client
  <2>2. [k EXCEPT !.socket = "closed", !.read = k.read] \in Client
    BY DEF Client
  <2> QED
    BY <2>1, <2>2 DEF ClosedClient
<1> QED
  BY <1>1, <1>2, <1>3, <1>4

(* Every step of the GUI thread, the network and the strand keeps the types  *)
(* and what the handlers rely on.                                            *)
LEMMA NextServerInv == ServerInv /\ [Next]_vars => ServerInv'
<1> SUFFICES ASSUME ServerInv, [Next]_vars PROVE ServerInv'
  OBVIOUS
<1>0. /\ TypeOK /\ CallsInv /\ LoopsInv /\ StrandInv /\ ClientsInv
      /\ MaxStarts \in Nat /\ MaxClients \in Nat
      /\ Loops = 1 .. MaxStarts /\ Clients = 1 .. MaxClients
      /\ loop \in [Loops -> Loop] /\ client \in [Clients -> Client]
      /\ starts \in 0 .. MaxStarts /\ accepted \in 0 .. MaxClients
      /\ 1 .. accepted \subseteq Clients
      /\ strand \in [at : {"idle", "insert", "start", "read", "rearm", "stop", "tell",
                            "erase"},
                      client : 0 .. MaxClients, loop : 0 .. MaxStarts]
  BY Types
<1>1. CASE PressStart
  <2>a. todo' \in Seq(Calls) /\ Len(todo') = 6 /\ todo' # <<>>
    BY <1>0, <1>1, ButtonCalls DEF PressStart
  <2>b. Stage' = "close"
    BY <1>1, ButtonCalls DEF PressStart, Stage
  <2>1. TypeOK'
    BY <1>0, <1>1, ButtonCalls DEF PressStart, serverVars, wins, TypeOK, Calls
  <2>2. CallsInv'
    <3>1. todo' = StartCalls
      BY <1>1 DEF PressStart
    <3>2. \A i \in 1 .. 5 : Follows(StartCalls[i], StartCalls[i + 1])
      BY ButtonCalls DEF Follows
    <3>3. Len(StartCalls) = 6 /\ StartCalls # <<>> /\ StartCalls[6] = "startAccept"
      BY ButtonCalls
    <3> QED
      BY <2>b, <3>1, <3>2, <3>3 DEF CallsInv
  <2>3. LoopsInv'
    BY <1>0, <1>1 DEF PressStart, serverVars, LoopsInv
  <2>4. StrandInv'
    BY <1>0, <1>1 DEF PressStart, serverVars, StrandInv
  <2>5. ClientsInv'
    BY <1>0, <1>1 DEF PressStart, serverVars, ClientsInv
  <2> QED
    BY <2>1, <2>2, <2>3, <2>4, <2>5 DEF ServerInv
<1>2. CASE PressStop
  <2>a. Stage' = "close"
    BY <1>2, ButtonCalls DEF PressStop, Stage
  <2>1. TypeOK'
    BY <1>0, <1>2, ButtonCalls DEF PressStop, serverVars, wins, TypeOK, Calls
  <2>2. CallsInv'
    <3>1. todo' = StopCalls
      BY <1>2 DEF PressStop
    <3>2. \A i \in 1 .. 3 : Follows(StopCalls[i], StopCalls[i + 1])
      BY ButtonCalls DEF Follows
    <3>3. Len(StopCalls) = 4 /\ StopCalls # <<>> /\ StopCalls[4] = "clear"
      BY ButtonCalls
    <3> QED
      BY <2>a, <3>1, <3>2, <3>3 DEF CallsInv
  <2>3. LoopsInv'
    BY <1>0, <1>2, ButtonCalls DEF PressStop, serverVars, LoopsInv, WillAccept
  <2>4. StrandInv'
    BY <1>0, <1>2 DEF PressStop, serverVars, StrandInv
  <2>5. ClientsInv'
    BY <1>0, <1>2 DEF PressStop, serverVars, ClientsInv
  <2> QED
    BY <2>1, <2>2, <2>3, <2>4, <2>5 DEF ServerInv
<1>3. CASE CloseAcceptor
  <2>0. /\ todo' \in Seq(Calls)
        /\ Stage = "close" /\ (Stage' = "none" \/ Follows("close", Stage'))
        /\ \A i \in 1 .. Len(todo') - 1 : Follows(todo'[i], todo'[i + 1])
        /\ todo' # <<>> => todo'[Len(todo')] \in {"clear", "startAccept"}
        /\ WillAccept' => WillAccept /\ "close" # "startAccept"
    BY <1>0, <1>3, NextCall DEF CloseAcceptor
  <2>a. loop' \in [Loops -> Loop]
    BY <1>0, <1>3 DEF CloseAcceptor, Loop
  <2>1. TypeOK'
    BY <1>0, <1>3, <2>0, <2>a DEF CloseAcceptor, wins, TypeOK
  <2>2. CallsInv'
    BY <1>3, <2>0 DEF CloseAcceptor, CallsInv
  <2>3. LoopsInv'
    BY <1>0, <1>3, <2>0 DEF CloseAcceptor, LoopsInv
  <2>4. StrandInv'
    BY <1>0, <1>3 DEF CloseAcceptor, StrandInv
  <2>5. ClientsInv'
    BY <1>0, <1>3 DEF CloseAcceptor, ClientsInv
  <2> QED
    BY <2>1, <2>2, <2>3, <2>4, <2>5 DEF ServerInv
<1>4. CASE StopAll
  <2>0. /\ todo' \in Seq(Calls)
        /\ Stage = "stopAll" /\ (Stage' = "none" \/ Follows("stopAll", Stage'))
        /\ \A i \in 1 .. Len(todo') - 1 : Follows(todo'[i], todo'[i + 1])
        /\ todo' # <<>> => todo'[Len(todo')] \in {"clear", "startAccept"}
        /\ WillAccept' => WillAccept /\ "stopAll" # "startAccept"
    BY <1>0, <1>4, NextCall DEF StopAll
  <2>1. TypeOK'
    BY <1>0, <1>4, <2>0 DEF StopAll, serverVars, wins, TypeOK
  <2>2. CallsInv'
    BY <1>0, <1>4, <2>0 DEF StopAll, serverVars, CallsInv
  <2>3. LoopsInv'
    BY <1>0, <1>4, <2>0 DEF StopAll, serverVars, LoopsInv
  <2>4. StrandInv'
    BY <1>0, <1>4 DEF StopAll, serverVars, StrandInv
  <2>5. ClientsInv'
    BY <1>0, <1>4 DEF StopAll, serverVars, ClientsInv
  <2> QED
    BY <2>1, <2>2, <2>3, <2>4, <2>5 DEF ServerInv
<1>5. ASSUME NEW c \in Clients, SweepFlag(c)
      PROVE  ServerInv'
  <2>a. c \in 1 .. accepted
    BY <1>0, <1>5 DEF SweepFlag, TypeOK
  <2>b. client' \in [Clients -> Client]
    BY <1>0, <1>5, ClientParts DEF SweepFlag
  <2>1. TypeOK'
    BY <1>0, <1>5, <2>b DEF SweepFlag, wins, TypeOK
  <2>2. CallsInv'
    BY <1>0, <1>5 DEF SweepFlag, CallsInv, Stage
  <2>3. LoopsInv'
    BY <1>0, <1>5 DEF SweepFlag, LoopsInv, WillAccept
  <2>4. StrandInv'
    BY <1>0, <1>5 DEF SweepFlag, StrandInv
  <2>5. ClientsInv'
    BY <1>0, <1>5, <2>a DEF SweepFlag, ClientsInv
  <2> QED
    BY <2>1, <2>2, <2>3, <2>4, <2>5 DEF ServerInv
<1>6. CASE SweepClose
  <2>a. closing \in Clients
    BY <1>0, <1>6 DEF SweepClose, TypeOK
  <2>b. client' \in [Clients -> Client]
    BY <1>0, <1>6, ClientParts DEF SweepClose
  <2>1. TypeOK'
    BY <1>0, <1>6, <2>b DEF SweepClose, wins, TypeOK
  <2>2. CallsInv'
    BY <1>0, <1>6 DEF SweepClose, CallsInv, Stage
  <2>3. LoopsInv'
    BY <1>0, <1>6 DEF SweepClose, LoopsInv, WillAccept
  <2>4. StrandInv'
    BY <1>0, <1>6 DEF SweepClose, ClosedClient, StrandInv
  <2>5. ClientsInv'
    BY <1>0, <1>6 DEF SweepClose, ClosedClient, ClientsInv
  <2> QED
    BY <2>1, <2>2, <2>3, <2>4, <2>5 DEF ServerInv
<1>7. CASE SweepEnd
  <2>0. /\ todo' \in Seq(Calls)
        /\ Stage = "sweep" /\ (Stage' = "none" \/ Follows("sweep", Stage'))
        /\ \A i \in 1 .. Len(todo') - 1 : Follows(todo'[i], todo'[i + 1])
        /\ todo' # <<>> => todo'[Len(todo')] \in {"clear", "startAccept"}
        /\ WillAccept' => WillAccept /\ "sweep" # "startAccept"
    BY <1>0, <1>7, NextCall DEF SweepEnd
  <2>1. TypeOK'
    BY <1>0, <1>7, <2>0 DEF SweepEnd, serverVars, wins, TypeOK
  <2>2. CallsInv'
    BY <1>0, <1>7, <2>0 DEF SweepEnd, serverVars, CallsInv
  <2>3. LoopsInv'
    BY <1>0, <1>7, <2>0 DEF SweepEnd, serverVars, LoopsInv
  <2>4. StrandInv'
    BY <1>0, <1>7 DEF SweepEnd, serverVars, StrandInv
  <2>5. ClientsInv'
    BY <1>0, <1>7 DEF SweepEnd, serverVars, ClientsInv
  <2> QED
    BY <2>1, <2>2, <2>3, <2>4, <2>5 DEF ServerInv
<1>8. CASE Clear
  <2>0. /\ todo' \in Seq(Calls)
        /\ Stage = "clear" /\ (Stage' = "none" \/ Follows("clear", Stage'))
        /\ \A i \in 1 .. Len(todo') - 1 : Follows(todo'[i], todo'[i + 1])
        /\ todo' # <<>> => todo'[Len(todo')] \in {"clear", "startAccept"}
        /\ WillAccept' => WillAccept /\ "clear" # "startAccept"
    BY <1>0, <1>8, NextCall DEF Clear
  <2>1. TypeOK'
    BY <1>0, <1>8, <2>0 DEF Clear, TypeOK
  <2>2. CallsInv'
    BY <1>0, <1>8, <2>0 DEF Clear, CallsInv
  <2>3. LoopsInv'
    BY <1>0, <1>8, <2>0 DEF Clear, LoopsInv
  <2>4. StrandInv'
    BY <1>0, <1>8 DEF Clear, StrandInv
  <2>5. ClientsInv'
    BY <1>0, <1>8 DEF Clear, ClientsInv
  <2> QED
    BY <2>1, <2>2, <2>3, <2>4, <2>5 DEF ServerInv
<1>9. CASE Open
  <2>0. /\ UNCHANGED <<loop, starts, client, accepted, connections, strand, sweep, closing>>
        /\ UNCHANGED <<overtaken, consoles, orphans>>
        /\ acceptor' \in {"closed", "unbound", "listening"} /\ lost' \in BOOLEAN
    BY <1>0, <1>9 DEF Open, wins, TypeOK
  <2>1. /\ todo' \in Seq(Calls)
        /\ Stage' \notin {"stopAll", "sweep", "clear", "open"}
        /\ \A i \in 1 .. Len(todo') - 1 : Follows(todo'[i], todo'[i + 1])
        /\ todo' # <<>> => todo'[Len(todo')] \in {"clear", "startAccept"}
        /\ WillAccept' => WillAccept
    <3>1. CASE todo' = Tail(todo)
      BY <1>0, <1>9, <3>1, NextCall DEF Open, Follows
    <3>2. CASE todo' = Tail(Tail(todo))
      <4>1. todo' = <<>> /\ Len(todo') = 0
        BY <1>0, <1>9, <3>2, OpenIsLast DEF Open
      <4> QED
        BY <4>1 DEF Stage, WillAccept
    <3> QED
      BY <1>9, <3>1, <3>2 DEF Open
  <2>2. TypeOK'
    BY <1>0, <2>0, <2>1 DEF TypeOK, Calls
  <2>3. CallsInv' /\ LoopsInv'
    BY <1>0, <2>0, <2>1 DEF CallsInv, LoopsInv
  <2>4. StrandInv' /\ ClientsInv'
    BY <1>0, <2>0 DEF StrandInv, ClientsInv
  <2> QED
    BY <2>2, <2>3, <2>4 DEF ServerInv
<1>10. CASE StartAccept
  <2>0. /\ todo' \in Seq(Calls)
        /\ Stage = "startAccept" /\ (Stage' = "none" \/ Follows("startAccept", Stage'))
        /\ \A i \in 1 .. Len(todo') - 1 : Follows(todo'[i], todo'[i + 1])
        /\ todo' # <<>> => todo'[Len(todo')] \in {"clear", "startAccept"}
        /\ WillAccept' => WillAccept /\ "startAccept" # "startAccept"
    BY <1>0, <1>10, NextCall DEF StartAccept
  <2>a. starts + 1 \in Loops
    <3>1. WillAccept
      BY <1>0, <1>10, StartAcceptIsLeft DEF StartAccept
    <3> QED
      BY <1>0, <3>1 DEF LoopsInv
  <2>b. loop' \in [Loops -> Loop]
    <3>1. \A l \in Loop : [l EXCEPT !.accept = "pending"] \in Loop
      BY DEF Loop
    <3> QED
      BY <1>0, <1>10, <2>a, <3>1 DEF StartAccept
  <2>1. TypeOK'
    BY <1>0, <1>10, <2>0, <2>b, SMTT(20) DEF StartAccept, wins, TypeOK
  <2>2. CallsInv'
    BY <2>0 DEF CallsInv, Follows
  <2>3. LoopsInv'
    BY <1>0, <1>10, <2>0 DEF StartAccept, LoopsInv
  <2>4. StrandInv'
    BY <1>0, <1>10 DEF StartAccept, StrandInv
  <2>5. ClientsInv'
    BY <1>0, <1>10 DEF StartAccept, ClientsInv
  <2> QED
    BY <2>1, <2>2, <2>3, <2>4, <2>5 DEF ServerInv
<1>11. ASSUME NEW c \in Clients, ToggleConsole(c)
      PROVE  ServerInv'
  <2>1. TypeOK'
    BY <1>0, <1>11 DEF ToggleConsole, serverVars, TypeOK
  <2>2. CallsInv'
    BY <1>11 DEF ToggleConsole, CallsInv, Stage
  <2>3. LoopsInv'
    BY <1>0, <1>11 DEF ToggleConsole, serverVars, LoopsInv, WillAccept
  <2>4. StrandInv'
    BY <1>0, <1>11 DEF ToggleConsole, serverVars, StrandInv
  <2>5. ClientsInv'
    BY <1>0, <1>11 DEF ToggleConsole, serverVars, ClientsInv
  <2> QED
    BY <2>1, <2>2, <2>3, <2>4, <2>5 DEF ServerInv
<1>12. ASSUME NEW i \in Loops, Accepted(i)
      PROVE  ServerInv'
  <2>a. accepted + 1 \in Clients /\ accepted + 1 \in 0 .. MaxClients
    BY <1>0, <1>12 DEF Accepted
  <2>b. loop' \in [Loops -> Loop]
    BY <1>0, <1>12 DEF Accepted, Loop
  <2>c. client' \in [Clients -> Client]
    BY <1>0, <1>12, ClientParts DEF Accepted
  <2>d. 1 .. accepted \subseteq 1 .. accepted'
    BY <1>0, <1>12 DEF Accepted
  <2>1. TypeOK'
    BY <1>0, <1>12, <2>b, <2>c DEF Accepted, wins, TypeOK
  <2>2. CallsInv'
    BY <1>0, <1>12 DEF Accepted, CallsInv, Stage
  <2>3. LoopsInv'
    BY <1>0, <1>12 DEF Accepted, LoopsInv, WillAccept
  <2>4. StrandInv'
    BY <1>0, <1>12 DEF Accepted, StrandInv
  <2>5. ClientsInv'
    <3>1. \A c \in Clients :
              c # accepted + 1 => client'[c] = client[c]
      BY <1>0, <1>12 DEF Accepted
    <3>2. client'[accepted + 1].read = "none"
      BY <1>0, <1>12 DEF Accepted, ClientsInv
    <3> QED
      <4>1. accepted' = accepted + 1 /\ closing' = closing /\ closing \in Nat
        BY <1>0, <1>12 DEF Accepted, TypeOK
      <4>2. closing' <= accepted'
        BY <1>0, <4>1 DEF ClientsInv
      <4>3. ASSUME NEW c \in Clients
            PROVE  /\ c > accepted' =>
                          client'[c].socket = "none" /\ client'[c].read = "none"
                   /\ client'[c].read = "aborted" => client'[c].socket = "closed"
        BY <1>0, <3>1, <3>2, <4>1 DEF ClientsInv
      <4> QED
        BY <4>2, <4>3 DEF ClientsInv
  <2> QED
    BY <2>1, <2>2, <2>3, <2>4, <2>5 DEF ServerInv
<1>13. ASSUME NEW i \in Loops, AcceptFails(i)
      PROVE  ServerInv'
  <2>a. loop' \in [Loops -> Loop]
    BY <1>0, <1>13 DEF AcceptFails, Loop
  <2>1. TypeOK'
    BY <1>0, <1>13, <2>a DEF AcceptFails, wins, TypeOK
  <2>2. CallsInv'
    BY <1>0, <1>13 DEF AcceptFails, CallsInv, Stage
  <2>3. LoopsInv'
    BY <1>0, <1>13 DEF AcceptFails, LoopsInv, WillAccept
  <2>4. StrandInv'
    BY <1>0, <1>13 DEF AcceptFails, StrandInv
  <2>5. ClientsInv'
    BY <1>0, <1>13 DEF AcceptFails, ClientsInv
  <2> QED
    BY <2>1, <2>2, <2>3, <2>4, <2>5 DEF ServerInv
<1>14. ASSUME NEW c \in Clients, ReadEnds(c)
      PROVE  ServerInv'
  <2>a. client' \in [Clients -> Client]
    <3>1. PICK res \in {"data", "failed"} : client' = [client EXCEPT ![c].read = res]
      BY <1>14 DEF ReadEnds
    <3> QED
      BY <1>0, <3>1, ClientParts
  <2>1. TypeOK'
    BY <1>0, <1>14, <2>a DEF ReadEnds, wins, TypeOK
  <2>2. CallsInv'
    BY <1>0, <1>14 DEF ReadEnds, CallsInv, Stage
  <2>3. LoopsInv'
    BY <1>0, <1>14 DEF ReadEnds, LoopsInv, WillAccept
  <2>4. StrandInv'
    BY <1>0, <1>14 DEF ReadEnds, StrandInv
  <2>5. ClientsInv'
    BY <1>0, <1>14 DEF ReadEnds, ClientsInv
  <2> QED
    BY <2>1, <2>2, <2>3, <2>4, <2>5 DEF ServerInv
<1>15. ASSUME NEW i \in Loops, OnAccept(i)
       PROVE  ServerInv'
  <2>1. strand' \in [at : {"idle", "insert", "start", "read", "rearm", "stop", "tell",
                          "erase"}, client : 0 .. MaxClients, loop : 0 .. MaxStarts]
    BY <1>0, <1>15, AcceptStep
  <2>2. lost' \in BOOLEAN
    BY <1>0, <1>15 DEF OnAccept, AcceptDropped, AcceptRefused, AcceptTaken, TypeOK
  <2>3. TypeOK'
    <3>1. /\ UNCHANGED <<acceptor, starts, accepted, connections, todo, sweep, closing>>
          /\ UNCHANGED <<overtaken, consoles, orphans>>
          /\ loop' \in [Loops -> Loop] /\ client' \in [Clients -> Client]
      BY <1>0, <1>15, AcceptStep
    <3> QED
      BY <1>0, <2>1, <2>2, <3>1 DEF TypeOK
  <2>4. CallsInv'
    BY <1>0, <1>15, AcceptStep, SMTT(20) DEF CallsInv, Stage
  <2>5. LoopsInv'
    BY <1>0, <1>15, AcceptStep DEF LoopsInv, WillAccept
  <2>6. ClientsInv'
    BY <1>0, <1>15, AcceptStep DEF ClientsInv, Client
  <2>7. StrandInv'
    <3>1. CASE UNCHANGED strand
      BY <1>15, <3>1, AcceptStep DEF StrandInv
    <3>2. CASE /\ loop[i].accept = "ok"
               /\ strand' = [at |-> "insert", client |-> loop[i].client, loop |-> i]
      BY <1>0, <1>15, AcceptStep DEF StrandInv
    <3> QED
      BY <1>15, <3>1, <3>2, AcceptStep
  <2> QED
    BY <2>3, <2>4, <2>5, <2>6, <2>7 DEF ServerInv
<1>16. ASSUME NEW c \in Clients, OnRead(c)
      PROVE  ServerInv'
  <2>a. client' \in [Clients -> Client]
    BY <1>0, <1>16, ClientParts DEF OnRead
  <2>b. c \in 1 .. accepted
    BY <1>0, <1>16, SMTT(20) DEF OnRead, ReadAgain, ReadOver, PeerGone, ClientsInv
  <2>1. TypeOK'
    BY <1>0, <1>16, <2>a, SMTT(20) DEF OnRead, ReadAgain, ReadOver, PeerGone, guiVars, wins,
         TypeOK
  <2>2. CallsInv'
    BY <1>0, <1>16 DEF OnRead, guiVars, CallsInv, Stage
  <2>3. LoopsInv'
    BY <1>0, <1>16 DEF OnRead, guiVars, LoopsInv, WillAccept
  <2>4. StrandInv'
    BY <1>0, <1>16, <2>b DEF OnRead, ReadAgain, ReadOver, PeerGone, StrandIdle,
         StrandInv
  <2>5. ClientsInv'
    BY <1>0, <1>16 DEF OnRead, guiVars, ClientsInv
  <2> QED
    BY <2>1, <2>2, <2>3, <2>4, <2>5 DEF ServerInv
<1>17. CASE Insert
  <2>a. strand' \in [at : {"idle", "insert", "start", "read", "rearm", "stop", "tell",
                          "erase"}, client : 0 .. MaxClients, loop : 0 .. MaxStarts]
    BY <1>0, <1>17 DEF Insert, Goto
  <2>1. TypeOK'
    <3>1. strand.client \in 1 .. accepted
      BY <1>0, <1>17 DEF Insert, StrandInv
    <3>2. connections' \subseteq 1 .. accepted /\ sweep' \subseteq 1 .. accepted
      BY <1>0, <1>17, <3>1 DEF Insert, TypeOK
    <3> QED
      BY <1>0, <1>17, <2>a, <3>2 DEF Insert, wins, TypeOK
  <2>2. CallsInv'
    BY <1>0, <1>17 DEF Insert, CallsInv, Stage
  <2>3. LoopsInv'
    BY <1>0, <1>17 DEF Insert, LoopsInv, WillAccept
  <2>4. StrandInv'
    BY <1>0, <1>17 DEF Insert, Goto, StrandInv
  <2>5. ClientsInv'
    BY <1>0, <1>17 DEF Insert, ClientsInv
  <2> QED
    BY <2>1, <2>2, <2>3, <2>4, <2>5 DEF ServerInv
<1>18. CASE StartClient
  <2>a. strand' \in [at : {"idle", "insert", "start", "read", "rearm", "stop", "tell",
                          "erase"}, client : 0 .. MaxClients, loop : 0 .. MaxStarts]
    BY <1>0, <1>18 DEF StartClient, Goto
  <2>b. client' \in [Clients -> Client]
    BY <1>0, <1>18, ClientParts DEF StartClient
  <2>1. TypeOK'
    BY <1>0, <1>18, <2>a, <2>b DEF StartClient, guiVars, wins, TypeOK
  <2>2. CallsInv'
    BY <1>0, <1>18 DEF StartClient, guiVars, CallsInv, Stage
  <2>3. LoopsInv'
    BY <1>0, <1>18 DEF StartClient, guiVars, LoopsInv, WillAccept
  <2>4. StrandInv'
    BY <1>0, <1>18 DEF StartClient, Goto, StrandInv
  <2>5. ClientsInv'
    BY <1>0, <1>18 DEF StartClient, guiVars, ClientsInv
  <2> QED
    BY <2>1, <2>2, <2>3, <2>4, <2>5 DEF ServerInv
<1>19. CASE StartRead
  <2>a. strand.client \in 1 .. accepted
    BY <1>0, <1>19 DEF StartRead, StrandInv
  <2>b. strand' \in [at : {"idle", "insert", "start", "read", "rearm", "stop", "tell",
                          "erase"}, client : 0 .. MaxClients, loop : 0 .. MaxStarts]
    BY <1>0, <1>19 DEF StartRead, Idle
  <2>c. client' \in [Clients -> Client]
    <3>1. PICK res \in {"pending", "failed"} :
              client' = [client EXCEPT ![strand.client].read = res]
      BY <1>19 DEF StartRead
    <3> QED
      BY <1>0, <3>1, ClientParts
  <2>1. TypeOK'
    BY <1>0, <1>19, <2>b, <2>c DEF StartRead, guiVars, wins, TypeOK
  <2>2. CallsInv'
    BY <1>0, <1>19 DEF StartRead, guiVars, CallsInv, Stage
  <2>3. LoopsInv'
    BY <1>0, <1>19 DEF StartRead, guiVars, LoopsInv, WillAccept
  <2>4. StrandInv'
    BY <1>0, <1>19 DEF StartRead, Idle, StrandInv
  <2>5. ClientsInv'
    BY <1>0, <1>19, <2>a DEF StartRead, guiVars, ClientsInv
  <2> QED
    BY <2>1, <2>2, <2>3, <2>4, <2>5 DEF ServerInv
<1>20. CASE Rearm
  <2>a. strand.loop \in Loops
    BY <1>0, <1>20 DEF Rearm, StrandInv
  <2>b. loop' \in [Loops -> Loop]
    BY <1>0, <1>20, <2>a DEF Rearm, Loop
  <2>c. strand' \in [at : {"idle", "insert", "start", "read", "rearm", "stop", "tell",
                          "erase"}, client : 0 .. MaxClients, loop : 0 .. MaxStarts]
    BY <1>0, <1>20 DEF Rearm, Idle
  <2>1. TypeOK'
    BY <1>0, <1>20, <2>b, <2>c DEF Rearm, guiVars, wins, TypeOK
  <2>2. CallsInv'
    BY <1>0, <1>20 DEF Rearm, guiVars, CallsInv, Stage
  <2>3. LoopsInv'
    <3>1. strand.loop <= starts
      BY <1>0, <1>20 DEF Rearm, StrandInv
    <3>2. \A i \in Loops :
              /\ i # strand.loop => loop'[i] = loop[i]
              /\ loop'[strand.loop].accept # "ok"
      BY <1>0, <1>20, <2>a DEF Rearm
    <3> QED
      BY <1>0, <1>20, <3>1 DEF Rearm, guiVars, LoopsInv, WillAccept
  <2>4. StrandInv'
    BY <1>20 DEF Rearm, Idle, StrandInv
  <2>5. ClientsInv'
    BY <1>0, <1>20 DEF Rearm, guiVars, ClientsInv
  <2> QED
    BY <2>1, <2>2, <2>3, <2>4, <2>5 DEF ServerInv
<1>21. CASE StopClient
  <2>a. strand.client \in 1 .. accepted
    BY <1>0, <1>21 DEF StopClient, StrandInv
  <2>b. strand' \in [at : {"idle", "insert", "start", "read", "rearm", "stop", "tell",
                          "erase"}, client : 0 .. MaxClients, loop : 0 .. MaxStarts]
    BY <1>0, <1>21 DEF StopClient, Goto
  <2>c. client' \in [Clients -> Client]
    <3>1. [ClosedClient(client[strand.client]) EXCEPT !.do_run = FALSE] \in Client
      BY <1>0, <2>a, ClientParts
    <3> QED
      BY <1>0, <1>21, <3>1 DEF StopClient
  <2>1. TypeOK'
    BY <1>0, <1>21, <2>b, <2>c DEF StopClient, guiVars, wins, TypeOK
  <2>2. CallsInv'
    BY <1>0, <1>21 DEF StopClient, guiVars, CallsInv, Stage
  <2>3. LoopsInv'
    BY <1>0, <1>21 DEF StopClient, guiVars, LoopsInv, WillAccept
  <2>4. StrandInv'
    BY <1>0, <1>21 DEF StopClient, ClosedClient, Goto, StrandInv
  <2>5. ClientsInv'
    BY <1>0, <1>21, <2>a DEF StopClient, ClosedClient, guiVars, ClientsInv
  <2> QED
    BY <2>1, <2>2, <2>3, <2>4, <2>5 DEF ServerInv
<1>22. CASE TellWindow
  <2>a. strand' \in [at : {"idle", "insert", "start", "read", "rearm", "stop", "tell",
                          "erase"}, client : 0 .. MaxClients, loop : 0 .. MaxStarts]
    BY <1>0, <1>22 DEF TellWindow, Goto
  <2>1. TypeOK'
    BY <1>0, <1>22, <2>a DEF TellWindow, serverVars, TypeOK
  <2>2. CallsInv'
    BY <1>0, <1>22 DEF TellWindow, serverVars, CallsInv, Stage
  <2>3. LoopsInv'
    BY <1>0, <1>22 DEF TellWindow, serverVars, LoopsInv, WillAccept
  <2>4. StrandInv'
    BY <1>0, <1>22 DEF TellWindow, Goto, serverVars, StrandInv
  <2>5. ClientsInv'
    BY <1>0, <1>22 DEF TellWindow, serverVars, ClientsInv
  <2> QED
    BY <2>1, <2>2, <2>3, <2>4, <2>5 DEF ServerInv
<1>23. CASE Erase
  <2>a. strand' \in [at : {"idle", "insert", "start", "read", "rearm", "stop", "tell",
                          "erase"}, client : 0 .. MaxClients, loop : 0 .. MaxStarts]
    BY <1>0, <1>23 DEF Erase, Idle
  <2>1. TypeOK'
    BY <1>0, <1>23, <2>a DEF Erase, wins, TypeOK
  <2>2. CallsInv'
    BY <1>0, <1>23 DEF Erase, CallsInv, Stage
  <2>3. LoopsInv'
    BY <1>0, <1>23 DEF Erase, LoopsInv, WillAccept
  <2>4. StrandInv'
    BY <1>23 DEF Erase, Idle, StrandInv
  <2>5. ClientsInv'
    BY <1>0, <1>23 DEF Erase, ClientsInv
  <2> QED
    BY <2>1, <2>2, <2>3, <2>4, <2>5 DEF ServerInv
<1>24. CASE UNCHANGED vars
  <2>1. TypeOK'
    BY <1>0, <1>24 DEF vars, wins, TypeOK
  <2>2. CallsInv' /\ LoopsInv' /\ StrandInv' /\ ClientsInv'
    BY <1>0, <1>24 DEF vars, CallsInv, Stage, LoopsInv, WillAccept, StrandInv,
         ClientsInv
  <2> QED
    BY <2>1, <2>2 DEF ServerInv
<1> QED
  BY <1>1, <1>2, <1>3, <1>4, <1>5, <1>6, <1>7, <1>8, <1>9, <1>10, <1>11, <1>12,
     <1>13, <1>14, <1>15, <1>16, <1>17, <1>18, <1>19, <1>20, <1>21, <1>22, <1>23,
     <1>24
     DEF Next, Gui, User, Network, Strand, HandlerStep

(* A start() begins a loop that nobody has begun. *)
LEMMA StartAcceptStep ==
    ASSUME ServerInv, StartAccept
    PROVE  /\ starts + 1 \in Loops /\ starts' = starts + 1
           /\ loop[starts + 1].accept = "over" /\ loop'[starts + 1].accept = "pending"
           /\ \A i \in Loops : i # starts + 1 => loop'[i] = loop[i]
           /\ Stage = "startAccept" /\ Stage' = "none"
<1>0. /\ TypeOK /\ CallsInv /\ LoopsInv /\ MaxStarts \in Nat
      /\ Loops = 1 .. MaxStarts /\ loop \in [Loops -> Loop] /\ starts \in 0 .. MaxStarts
  BY Types
<1>1. WillAccept
  BY <1>0, StartAcceptIsLeft DEF StartAccept
<1>2. starts + 1 \in Loops
  BY <1>0, <1>1 DEF LoopsInv
<1>3. Stage = "startAccept" /\ Stage' = "none"
  BY <1>0, NextCall DEF StartAccept, Follows
<1> QED
  BY <1>0, <1>2, <1>3 DEF StartAccept, LoopsInv

(* What is done is the first of what is left. *)
LEMMA DoingStage ==
    ASSUME TypeOK, NEW step \in Calls
    PROVE  Doing(step) <=> Stage = step
<1>1. todo \in Seq(Calls) /\ (todo # <<>> => Head(todo) = todo[1])
  <2>1. todo \in Seq(Calls)
    BY DEF TypeOK, Calls
  <2> QED
    BY <2>1, HeadTailProperties
<1> QED
  BY <1>1 DEF Doing, Stage, Calls

(* Every step keeps the clients listening. *)
LEMMA NextNoDeafClient ==
    ASSUME ServerInv, NoDeafClient, [Next]_vars PROVE NoDeafClient'
<1>0. /\ TypeOK /\ CallsInv /\ LoopsInv /\ StrandInv /\ ClientsInv
      /\ MaxStarts \in Nat /\ MaxClients \in Nat
      /\ Loops = 1 .. MaxStarts /\ Clients = 1 .. MaxClients
      /\ loop \in [Loops -> Loop] /\ client \in [Clients -> Client]
      /\ starts \in 0 .. MaxStarts /\ accepted \in 0 .. MaxClients
      /\ 1 .. accepted \subseteq Clients
      /\ strand \in [at : {"idle", "insert", "start", "read", "rearm", "stop", "tell",
                            "erase"},
                      client : 0 .. MaxClients, loop : 0 .. MaxStarts]
  BY Types
<1>1. CASE PressStart
  BY <1>1 DEF PressStart, serverVars, NoDeafClient, Handled
<1>2. CASE PressStop
  BY <1>2 DEF PressStop, serverVars, NoDeafClient, Handled
<1>3. CASE CloseAcceptor
  BY <1>3 DEF CloseAcceptor, NoDeafClient, Handled
<1>4. CASE StopAll
  BY <1>4 DEF StopAll, serverVars, NoDeafClient, Handled
<1>5. ASSUME NEW c \in Clients, SweepFlag(c)
      PROVE  NoDeafClient'
  BY <1>5 DEF SweepFlag, NoDeafClient, Handled
<1>6. CASE SweepClose
  BY <1>6 DEF SweepClose, ClosedClient, NoDeafClient, Handled
<1>7. CASE SweepEnd
  BY <1>7 DEF SweepEnd, serverVars, NoDeafClient, Handled
<1>8. CASE Clear
  BY <1>8 DEF Clear, NoDeafClient, Handled
<1>9. CASE Open
  BY <1>9 DEF Open, NoDeafClient, Handled
<1>10. CASE StartAccept
  <2>1. \A i \in Loops : loop[i].accept = "ok" => loop'[i] = loop[i]
    BY <1>0, <1>10, StartAcceptStep
  <2> QED
    <3>1. UNCHANGED <<client, strand>>
      BY <1>10 DEF StartAccept
    <3> QED
      BY <2>1, <3>1 DEF NoDeafClient, Handled
<1>11. ASSUME NEW c \in Clients, ToggleConsole(c)
      PROVE  NoDeafClient'
  BY <1>11 DEF ToggleConsole, serverVars, NoDeafClient, Handled
<1>12. ASSUME NEW i \in Loops, Accepted(i)
      PROVE  NoDeafClient'
  BY <1>0, <1>12 DEF Accepted, NoDeafClient, Handled
<1>13. ASSUME NEW i \in Loops, AcceptFails(i)
      PROVE  NoDeafClient'
  BY <1>13 DEF AcceptFails, NoDeafClient, Handled
<1>14. ASSUME NEW c \in Clients, ReadEnds(c)
      PROVE  NoDeafClient'
  BY <1>14 DEF ReadEnds, NoDeafClient, Handled
<1>15. ASSUME NEW i \in Loops, OnAccept(i)
      PROVE  NoDeafClient'
  <2> SUFFICES ASSUME NEW c \in Clients, client'[c].socket = "open", client'[c].do_run,
                      client'[c].read = "none"
               PROVE  \/ Handled(c)'
                      \/ \E j \in Loops : loop'[j].accept = "ok" /\ loop'[j].client = c
    BY DEF NoDeafClient
  <2>1. /\ client[c].socket = "open" /\ client[c].do_run /\ client[c].read = "none"
        /\ ~Handled(c)
    BY <1>15, AcceptStep DEF Handled
  <2>2. PICK j \in Loops : loop[j].accept = "ok" /\ loop[j].client = c
    BY <2>1 DEF NoDeafClient
  <2>3. CASE j # i
    BY <1>15, <2>2, <2>3, AcceptStep
  <2>4. CASE j = i
    BY <1>15, <2>2, AcceptStep DEF Handled
  <2> QED
    BY <2>3, <2>4
<1>16. ASSUME NEW c \in Clients, OnRead(c)
      PROVE  NoDeafClient'
  BY <1>0, <1>16 DEF OnRead, ReadAgain, ReadOver, PeerGone, StrandIdle,
       NoDeafClient, Handled, ClientsInv
<1>17. CASE Insert
  BY <1>17 DEF Insert, Goto, NoDeafClient, Handled
<1>18. CASE StartClient
  BY <1>18 DEF StartClient, Goto, NoDeafClient, Handled
<1>19. CASE StartRead
  BY <1>0, <1>19 DEF StartRead, NoDeafClient, Handled
<1>20. CASE Rearm
  BY <1>0, <1>20 DEF Rearm, NoDeafClient, Handled, StrandInv
<1>21. CASE StopClient
  BY <1>0, <1>21 DEF StopClient, NoDeafClient, Handled
<1>22. CASE TellWindow
  BY <1>22 DEF TellWindow, Goto, serverVars, NoDeafClient, Handled
<1>23. CASE Erase
  BY <1>0, <1>23 DEF Erase, NoDeafClient, Handled, StrandInv
<1>24. CASE UNCHANGED vars
  BY <1>24 DEF vars, NoDeafClient, Handled
<1> QED
  BY <1>1, <1>2, <1>3, <1>4, <1>5, <1>6, <1>7, <1>8, <1>9, <1>10, <1>11, <1>12,
     <1>13, <1>14, <1>15, <1>16, <1>17, <1>18, <1>19, <1>20, <1>21, <1>22, <1>23,
     <1>24
     DEF Next, Gui, User, Network, Strand, HandlerStep

(* Every step keeps a server that listens accepting. *)
LEMMA NextListeningAccepts ==
    ASSUME ServerInv, ListeningAccepts, [Next]_vars PROVE ListeningAccepts'
<1>0. /\ TypeOK /\ CallsInv /\ LoopsInv /\ StrandInv /\ ClientsInv
      /\ MaxStarts \in Nat /\ MaxClients \in Nat
      /\ Loops = 1 .. MaxStarts /\ Clients = 1 .. MaxClients
      /\ loop \in [Loops -> Loop] /\ client \in [Clients -> Client]
      /\ starts \in 0 .. MaxStarts /\ accepted \in 0 .. MaxClients
      /\ 1 .. accepted \subseteq Clients
      /\ strand \in [at : {"idle", "insert", "start", "read", "rearm", "stop", "tell",
                            "erase"},
                      client : 0 .. MaxClients, loop : 0 .. MaxStarts]
  BY Types
<1>1. CASE PressStart
  BY <1>1 DEF PressStart, serverVars, ListeningAccepts, Doing
<1>2. CASE PressStop
  BY <1>2 DEF PressStop, serverVars, ListeningAccepts, Doing
<1>3. CASE CloseAcceptor
  BY <1>3 DEF CloseAcceptor, ListeningAccepts
<1>4. CASE StopAll
  BY <1>4 DEF StopAll, serverVars, ListeningAccepts, Doing
<1>5. ASSUME NEW c \in Clients, SweepFlag(c)
      PROVE  ListeningAccepts'
  BY <1>5 DEF SweepFlag, ListeningAccepts, Doing
<1>6. CASE SweepClose
  BY <1>6 DEF SweepClose, ListeningAccepts, Doing
<1>7. CASE SweepEnd
  BY <1>7 DEF SweepEnd, serverVars, ListeningAccepts, Doing
<1>8. CASE Clear
  BY <1>8 DEF Clear, ListeningAccepts, Doing
<1>9. CASE Open
  <2> SUFFICES ASSUME acceptor' = "listening" PROVE Doing("startAccept")'
    BY DEF ListeningAccepts
  <2>1. todo' = Tail(todo)
    BY <1>9 DEF Open
  <2>2. todo' \in Seq(Calls) /\ Stage' = "startAccept"
    BY <1>0, <1>9, NextCall DEF Open, Follows
  <2>3. todo' # <<>> /\ Head(todo') = todo'[1]
    BY <2>2, HeadTailProperties DEF Stage
  <2> QED
    BY <2>2, <2>3 DEF Doing, Stage
<1>10. CASE StartAccept
  <2>1. starts + 1 \in Loops /\ loop'[starts + 1].accept = "pending"
    BY <1>10, StartAcceptStep
  <2> QED
    BY <2>1 DEF ListeningAccepts
<1>11. ASSUME NEW c \in Clients, ToggleConsole(c)
      PROVE  ListeningAccepts'
  BY <1>11 DEF ToggleConsole, serverVars, ListeningAccepts, Doing
<1>12. ASSUME NEW i \in Loops, Accepted(i)
      PROVE  ListeningAccepts'
  BY <1>12 DEF Accepted, ListeningAccepts
<1>13. ASSUME NEW i \in Loops, AcceptFails(i)
      PROVE  ListeningAccepts'
  BY <1>13 DEF AcceptFails, ListeningAccepts
<1>14. ASSUME NEW c \in Clients, ReadEnds(c)
      PROVE  ListeningAccepts'
  BY <1>14 DEF ReadEnds, ListeningAccepts, Doing
<1>15. ASSUME NEW i \in Loops, OnAccept(i)
      PROVE  ListeningAccepts'
  <2> SUFFICES ASSUME acceptor = "listening", ~lost'
               PROVE  \/ \E j \in Loops : loop'[j].accept \in {"pending", "ok", "failed"}
                      \/ Doing("startAccept")'
                      \/ strand'.loop # 0
    BY <1>15, AcceptStep DEF ListeningAccepts
  <2>1. ~lost /\ (strand'.loop # 0 \/ loop[i].accept = "aborted")
    <3>1. i # 0
      BY <1>0
    <3>2. CASE AcceptRefused(i)
      BY <1>15, <3>2 DEF OnAccept, AcceptRefused
    <3>3. CASE AcceptTaken(i)
      BY <3>1, <3>3 DEF AcceptTaken
    <3> QED
      BY <1>15, <3>2, <3>3 DEF OnAccept, AcceptDropped
  <2>2. CASE \E j \in Loops : loop[j].accept \in {"pending", "ok", "failed"}
    BY <1>15, <2>1, <2>2, AcceptStep
  <2>3. CASE Doing("startAccept")
    BY <1>15, <2>3, AcceptStep DEF Doing
  <2> QED
    BY <1>15, <2>1, <2>3, AcceptStep DEF ListeningAccepts
<1>16. ASSUME NEW c \in Clients, OnRead(c)
      PROVE  ListeningAccepts'
  BY <1>0, <1>16 DEF OnRead, StrandIdle, guiVars, ListeningAccepts, Doing,
       StrandInv
<1>17. CASE Insert
  BY <1>17 DEF Insert, Goto, ListeningAccepts, Doing
<1>18. CASE StartClient
  BY <1>18 DEF StartClient, Goto, guiVars, ListeningAccepts, Doing
<1>19. CASE StartRead
  BY <1>19 DEF StartRead, guiVars, ListeningAccepts, Doing
<1>20. CASE Rearm
  BY <1>0, <1>20 DEF Rearm, guiVars, ListeningAccepts, Doing
<1>21. CASE StopClient
  BY <1>21 DEF StopClient, Goto, guiVars, ListeningAccepts, Doing
<1>22. CASE TellWindow
  BY <1>22 DEF TellWindow, Goto, serverVars, ListeningAccepts, Doing
<1>23. CASE Erase
  BY <1>0, <1>23 DEF Erase, ListeningAccepts, Doing, StrandInv
<1>24. CASE UNCHANGED vars
  BY <1>24 DEF vars, ListeningAccepts, Doing
<1> QED
  BY <1>1, <1>2, <1>3, <1>4, <1>5, <1>6, <1>7, <1>8, <1>9, <1>10, <1>11, <1>12,
     <1>13, <1>14, <1>15, <1>16, <1>17, <1>18, <1>19, <1>20, <1>21, <1>22, <1>23,
     <1>24
     DEF Next, Gui, User, Network, Strand, HandlerStep

(* Every step keeps the consoles with their clients. *)
LEMMA NextConsolesInv ==
    ASSUME ServerInv, ConsolesInv, [Next]_vars PROVE ConsolesInv'
<1>0. /\ TypeOK /\ CallsInv /\ LoopsInv /\ StrandInv /\ ClientsInv
      /\ MaxStarts \in Nat /\ MaxClients \in Nat
      /\ Loops = 1 .. MaxStarts /\ Clients = 1 .. MaxClients
      /\ loop \in [Loops -> Loop] /\ client \in [Clients -> Client]
      /\ starts \in 0 .. MaxStarts /\ accepted \in 0 .. MaxClients
      /\ 1 .. accepted \subseteq Clients
      /\ strand \in [at : {"idle", "insert", "start", "read", "rearm", "stop", "tell",
                            "erase"},
                      client : 0 .. MaxClients, loop : 0 .. MaxStarts]
  BY Types
<1>1. CASE PressStart
  BY <1>1 DEF PressStart, serverVars, wins, ConsolesInv, ConsolesHaveClients
<1>2. CASE PressStop
  BY <1>2 DEF PressStop, serverVars, wins, ConsolesInv, ConsolesHaveClients
<1>3. CASE CloseAcceptor
  BY <1>3 DEF CloseAcceptor, wins, ConsolesInv, ConsolesHaveClients
<1>4. CASE StopAll
  BY <1>4 DEF StopAll, serverVars, wins, ConsolesInv, ConsolesHaveClients
<1>5. ASSUME NEW c \in Clients, SweepFlag(c)
      PROVE  ConsolesInv'
  BY <1>5 DEF SweepFlag, wins, ConsolesInv, ConsolesHaveClients
<1>6. CASE SweepClose
  BY <1>6 DEF SweepClose, wins, ConsolesInv, ConsolesHaveClients
<1>7. CASE SweepEnd
  BY <1>7 DEF SweepEnd, serverVars, wins, ConsolesInv, ConsolesHaveClients
<1>8. CASE Clear
  BY <1>8 DEF Clear, ConsolesInv, ConsolesHaveClients
<1>9. CASE Open
  BY <1>9 DEF Open, wins, ConsolesInv, ConsolesHaveClients
<1>10. CASE StartAccept
  BY <1>10 DEF StartAccept, wins, ConsolesInv, ConsolesHaveClients
<1>11. ASSUME NEW c \in Clients, ToggleConsole(c)
      PROVE  ConsolesInv'
  BY <1>11 DEF ToggleConsole, serverVars, ConsolesInv, ConsolesHaveClients
<1>12. ASSUME NEW i \in Loops, Accepted(i)
      PROVE  ConsolesInv'
  BY <1>12 DEF Accepted, wins, ConsolesInv, ConsolesHaveClients
<1>13. ASSUME NEW i \in Loops, AcceptFails(i)
      PROVE  ConsolesInv'
  BY <1>13 DEF AcceptFails, wins, ConsolesInv, ConsolesHaveClients
<1>14. ASSUME NEW c \in Clients, ReadEnds(c)
      PROVE  ConsolesInv'
  BY <1>14 DEF ReadEnds, wins, ConsolesInv, ConsolesHaveClients
<1>15. ASSUME NEW i \in Loops, OnAccept(i)
      PROVE  ConsolesInv'
  BY <1>15 DEF OnAccept, AcceptDropped, AcceptRefused, AcceptTaken, guiVars, wins,
       ConsolesInv, ConsolesHaveClients
<1>16. ASSUME NEW c \in Clients, OnRead(c)
      PROVE  ConsolesInv'
  BY <1>16 DEF OnRead, ReadAgain, ReadOver, PeerGone, guiVars, wins, ConsolesInv,
       ConsolesHaveClients
<1>17. CASE Insert
  BY <1>17 DEF Insert, Goto, wins, ConsolesInv, ConsolesHaveClients
<1>18. CASE StartClient
  BY <1>18 DEF StartClient, Goto, guiVars, wins, ConsolesInv, ConsolesHaveClients
<1>19. CASE StartRead
  BY <1>19 DEF StartRead, Idle, guiVars, wins, ConsolesInv, ConsolesHaveClients
<1>20. CASE Rearm
  BY <1>20 DEF Rearm, Idle, guiVars, wins, ConsolesInv, ConsolesHaveClients
<1>21. CASE StopClient
  BY <1>21 DEF StopClient, Goto, guiVars, wins, ConsolesInv, ConsolesHaveClients
<1>22. CASE TellWindow
  BY <1>22 DEF TellWindow, Goto, serverVars, ConsolesInv, ConsolesHaveClients
<1>23. CASE Erase
  BY <1>23 DEF Erase, Idle, wins, ConsolesInv, ConsolesHaveClients
<1>24. CASE UNCHANGED vars
  BY <1>24 DEF vars, wins, ConsolesInv, ConsolesHaveClients
<1> QED
  BY <1>1, <1>2, <1>3, <1>4, <1>5, <1>6, <1>7, <1>8, <1>9, <1>10, <1>11, <1>12,
     <1>13, <1>14, <1>15, <1>16, <1>17, <1>18, <1>19, <1>20, <1>21, <1>22, <1>23,
     <1>24
     DEF Next, Gui, User, Network, Strand, HandlerStep

(* What the GUI thread does with its calls, for the proof about stop().      *)
LEMMA PressStage ==
    ASSUME PressStart \/ PressStop
    PROVE  Stage = "none" /\ Stage' = "close"
BY ButtonCalls DEF PressStart, PressStop, Stage

(* Each call that the GUI thread returns from takes stop() to its next stage. *)
LEMMA CallStage ==
    ASSUME ServerInv, NEW step, Doing(step), todo' = Tail(todo)
    PROVE  /\ Stage = step
           /\ step = "close" => Stage' = "stopAll"
           /\ step = "stopAll" => Stage' = "sweep"
           /\ step = "sweep" => Stage' = "clear"
           /\ step = "clear" => Stage' \in {"none", "open"}
           /\ step = "open" => Stage' = "startAccept"
BY Types, NextCall DEF Follows

(* Every step keeps what a thorough stop() rests on. *)
LEMMA NextStopInv ==
    ASSUME ServerInv, StopInv, [Next]_vars PROVE StopInv'
<1>0. /\ TypeOK /\ CallsInv /\ LoopsInv /\ StrandInv /\ ClientsInv
      /\ MaxStarts \in Nat /\ MaxClients \in Nat
      /\ Loops = 1 .. MaxStarts /\ Clients = 1 .. MaxClients
      /\ loop \in [Loops -> Loop] /\ client \in [Clients -> Client]
      /\ starts \in 0 .. MaxStarts /\ accepted \in 0 .. MaxClients
      /\ 1 .. accepted \subseteq Clients /\ connections \subseteq 1 .. accepted
      /\ sweep \subseteq 1 .. accepted
  BY Types DEF TypeOK
<1> SUFFICES ASSUME ~overtaken, ~overtaken', ClosedInv, SweptInv, KnownInv
             PROVE  ClosedInv' /\ SweptInv' /\ KnownInv'
  <2>1. overtaken => overtaken'
    BY DEF Next, Gui, User, Network, Strand, HandlerStep, vars, guiVars,
         PressStart, PressStop, CloseAcceptor, StopAll, SweepFlag, SweepClose,
         SweepEnd, Clear, Open, StartAccept, ToggleConsole, Accepted, AcceptFails,
         ReadEnds, OnAccept, OnRead, Insert, StartClient, StartRead, Rearm,
         StopClient, TellWindow, Erase
  <2> QED
    BY <2>1 DEF StopInv
<1>1. CASE PressStart \/ PressStop
  <2>1. UNCHANGED <<acceptor, strand, connections, client, loop>>
    BY <1>1 DEF PressStart, PressStop, serverVars
  <2> QED
    BY <1>1, <2>1, PressStage DEF ClosedInv, SweptInv, KnownInv
<1>2. CASE CloseAcceptor
  <2>1. /\ UNCHANGED <<strand, connections, client>> /\ Stage' = "stopAll"
        /\ strand.loop = 0
    BY <1>2, CallStage DEF CloseAcceptor
  <2>2. \A i \in Loops : loop[i].accept = "ok" => loop'[i] = loop[i]
    BY <1>2 DEF CloseAcceptor
  <2> QED
    BY <2>1, <2>2 DEF ClosedInv, SweptInv, KnownInv
<1>3. CASE StopAll
  <2>1. /\ UNCHANGED <<acceptor, strand, connections, client, loop>>
        /\ Stage = "stopAll" /\ Stage' = "sweep" /\ sweep' = connections
    BY <1>3, CallStage DEF StopAll, serverVars
  <2> QED
    BY <2>1 DEF ClosedInv, SweptInv, KnownInv
<1>4. ASSUME NEW c \in Clients, SweepFlag(c)
      PROVE  ClosedInv' /\ SweptInv' /\ KnownInv'
  <2>1. /\ UNCHANGED <<acceptor, strand, connections, loop, todo>> /\ Stage' = Stage
        /\ Stage = "sweep" /\ sweep' = sweep \ {c} /\ closing' = c /\ closing = 0
    BY <1>0, <1>4, DoingStage DEF SweepFlag, Stage, Calls
  <2>2. \A d \in Clients : client'[d].socket = client[d].socket
    BY <1>0, <1>4 DEF SweepFlag, Client
  <2>3. 0 \notin connections
    BY <1>0
  <2> QED
    BY <1>0, <2>1, <2>2 DEF ClosedInv, SweptInv, KnownInv
<1>5. CASE SweepClose
  <2>1. /\ UNCHANGED <<acceptor, strand, connections, loop, todo, sweep>> /\ Stage' = Stage
    BY <1>5 DEF SweepClose, Stage
  <2>2. \A d \in Clients :
            /\ client'[d].socket = "open" => client[d].socket = "open"
            /\ d = closing => client'[d].socket = "closed"
    BY <1>0, <1>5 DEF SweepClose, ClosedClient
  <2> QED
    BY <1>0, <2>1, <2>2 DEF ClosedInv, SweptInv, KnownInv
<1>6. CASE SweepEnd
  <2>1. /\ UNCHANGED <<acceptor, strand, connections, client, loop>>
        /\ Stage = "sweep" /\ Stage' = "clear" /\ sweep = {} /\ closing = 0
    BY <1>6, CallStage DEF SweepEnd, serverVars
  <2>2. 0 \notin connections
    BY <1>0
  <2> QED
    BY <2>1, <2>2 DEF ClosedInv, SweptInv, KnownInv
<1>7. CASE Clear
  <2>1. /\ UNCHANGED <<acceptor, strand, client, loop>> /\ connections' = {}
        /\ Stage = "clear" /\ Stage' \in {"none", "open"}
    BY <1>7, CallStage DEF Clear
  <2> QED
    BY <2>1 DEF ClosedInv, SweptInv, KnownInv
<1>8. CASE Open
  <2>1. /\ UNCHANGED <<strand, client, loop, connections>>
        /\ Stage = "open" /\ Stage' \notin {"stopAll", "sweep", "clear"}
        /\ acceptor = "closed"
    <3>1. Stage = "open" /\ acceptor = "closed"
      BY <1>0, <1>8, DoingStage DEF Open, Calls, CallsInv
    <3>2. CASE todo' = Tail(todo)
      BY <1>8, <3>1, <3>2, CallStage DEF Open
    <3>3. CASE todo' = Tail(Tail(todo))
      BY <1>0, <1>8, <3>1, <3>3, OpenIsLast DEF Open, Stage
    <3> QED
      BY <1>8, <3>2, <3>3 DEF Open
  <2> QED
    BY <2>1 DEF ClosedInv, SweptInv, KnownInv
<1>9. CASE StartAccept
  <2>1. UNCHANGED <<acceptor, strand, client, connections>>
        /\ Stage = "startAccept" /\ Stage' = "none"
    BY <1>9, StartAcceptStep DEF StartAccept
  <2>2. \A i \in Loops : loop[i].accept = "ok" => loop'[i] = loop[i]
    BY <1>0, <1>9, StartAcceptStep
  <2> QED
    BY <2>1, <2>2 DEF ClosedInv, SweptInv, KnownInv
<1>10. ASSUME NEW i \in Loops, Accepted(i) \/ AcceptFails(i)
       PROVE  ClosedInv' /\ SweptInv' /\ KnownInv'
  <2>1. /\ UNCHANGED <<acceptor, strand, connections, todo, sweep, closing>>
        /\ Stage' = Stage
        /\ \A j \in Loops : loop[j].accept = "ok" => loop'[j] = loop[j]
    <3>1. CASE Accepted(i)
      BY <1>0, <3>1 DEF Accepted, Stage
    <3>2. CASE AcceptFails(i)
      BY <1>0, <3>2 DEF AcceptFails, Stage
    <3> QED
      BY <1>10, <3>1, <3>2
  <2>2. \A c \in Clients :
            \/ client'[c].socket = client[c].socket
            \/ /\ c = accepted + 1 /\ c \notin connections
               /\ loop'[i].accept = "ok" /\ loop'[i].client = c
    <3>1. CASE AcceptFails(i)
      BY <3>1 DEF AcceptFails
    <3>2. CASE Accepted(i)
      BY <1>0, <3>2 DEF Accepted, Client
    <3> QED
      BY <1>10, <3>1, <3>2
  <2>3. ClosedInv'
    BY <2>1 DEF ClosedInv
  <2>4. SweptInv'
    BY <1>0, <2>1, <2>2 DEF SweptInv
  <2>5. KnownInv'
    BY <2>1, <2>2 DEF KnownInv
  <2> QED
    BY <2>3, <2>4, <2>5
<1>11. ASSUME NEW c \in Clients, ReadEnds(c) \/ OnRead(c)
       PROVE  ClosedInv' /\ SweptInv' /\ KnownInv'
  <2>1. /\ UNCHANGED <<acceptor, connections, todo, sweep, closing, loop>>
        /\ Stage' = Stage /\ strand'.loop = strand.loop
        /\ strand.at = "insert" => UNCHANGED strand
    BY <1>0, <1>11 DEF ReadEnds, OnRead, ReadAgain, ReadOver, PeerGone, StrandIdle, guiVars,
                       Stage, StrandInv
  <2>2. \A d \in Clients : client'[d].socket = client[d].socket
    BY <1>0, <1>11 DEF ReadEnds, OnRead, Client
  <2> QED
    BY <1>0, <2>1, <2>2 DEF ClosedInv, SweptInv, KnownInv
<1>12. ASSUME NEW i \in Loops, OnAccept(i)
       PROVE  ClosedInv' /\ SweptInv' /\ KnownInv'
  <2>1. ClosedInv'
    BY <1>12, AcceptStep DEF ClosedInv, Stage
  <2>2. SweptInv'
    <3>1. /\ UNCHANGED <<todo, connections, sweep, closing>> /\ Stage' = Stage
          /\ \A c \in connections : client'[c].socket = "open" => client[c].socket = "open"
      BY <1>0, <1>12, AcceptStep DEF Stage
    <3> QED
      BY <3>1 DEF SweptInv
  <2>3. ASSUME NEW c \in Clients, client'[c].socket = "open"
        PROVE  \/ c \in connections'
               \/ \E j \in Loops : loop'[j].accept = "ok" /\ loop'[j].client = c
               \/ strand'.at = "insert" /\ strand'.client = c
    <3>1. client[c].socket = "open" /\ strand.at # "insert" /\ UNCHANGED connections
      BY <1>12, <2>3, AcceptStep
    <3>2. CASE c \in connections
      BY <3>1, <3>2
    <3>3. CASE \E j \in Loops : loop[j].accept = "ok" /\ loop[j].client = c
      <4>1. PICK j \in Loops : loop[j].accept = "ok" /\ loop[j].client = c
        BY <3>3
      <4>2. CASE j # i
        BY <1>12, <4>1, <4>2, AcceptStep
      <4>3. CASE j = i
        BY <1>12, <2>3, <4>1, AcceptStep
      <4> QED
        BY <4>2, <4>3
    <3> QED
      BY <3>1, <3>2, <3>3 DEF KnownInv
  <2> QED
    BY <2>1, <2>2, <2>3 DEF KnownInv
<1>13. CASE Insert
  <2>1. /\ UNCHANGED <<acceptor, client, loop, todo, closing>> /\ Stage' = Stage
        /\ strand.loop # 0 /\ strand'.loop = strand.loop /\ acceptor # "closed"
        /\ connections' = connections \cup {strand.client} /\ sweep \subseteq sweep'
    BY <1>0, <1>13 DEF Insert, Goto, Stage, StrandInv, ClosedInv
  <2>2. Stage \notin {"stopAll", "sweep", "clear", "open"}
    BY <1>0, <2>1 DEF CallsInv
  <2> QED
    BY <2>1, <2>2 DEF ClosedInv, SweptInv, KnownInv
<1>14. CASE StartClient \/ StartRead
  <2>1. /\ UNCHANGED <<acceptor, connections, todo, sweep, closing, loop>>
        /\ Stage' = Stage /\ (strand.loop = 0 => strand'.loop = 0)
        /\ strand.at # "insert"
    <3>1. CASE StartClient
      BY <3>1 DEF StartClient, Goto, guiVars, Stage
    <3>2. CASE StartRead
      BY <3>2 DEF StartRead, Idle, guiVars, Stage
    <3> QED
      BY <1>14, <3>1, <3>2
  <2>2. \A d \in Clients : client'[d].socket = client[d].socket
    <3>1. client \in [Clients -> Client]
      BY <1>0 DEF Client
    <3>2. CASE StartClient
      BY <3>1, <3>2 DEF StartClient, Client
    <3>3. CASE StartRead
      BY <3>1, <3>3 DEF StartRead, Client
    <3> QED
      BY <1>14, <3>2, <3>3
  <2> QED
    BY <1>0, <2>1, <2>2 DEF ClosedInv, SweptInv, KnownInv
<1>15. CASE Rearm
  <2>1. /\ UNCHANGED <<acceptor, connections, todo, sweep, closing, client>>
        /\ Stage' = Stage /\ strand'.loop = 0 /\ strand.at # "insert"
    BY <1>15 DEF Rearm, Idle, guiVars, Stage
  <2>2. \A i \in Loops : loop[i].accept = "ok" => loop'[i] = loop[i]
    BY <1>0, <1>15 DEF Rearm, StrandInv
  <2> QED
    BY <2>1, <2>2 DEF ClosedInv, SweptInv, KnownInv
<1>16. CASE StopClient
  <2>1. /\ UNCHANGED <<acceptor, connections, todo, sweep, closing, loop>>
        /\ Stage' = Stage /\ strand'.loop = strand.loop /\ strand.at # "insert"
    BY <1>16 DEF StopClient, Goto, guiVars, Stage
  <2>2. \A d \in Clients : client'[d].socket = "open" => client[d].socket = "open"
    BY <1>16 DEF StopClient, ClosedClient
  <2> QED
    BY <1>0, <2>1, <2>2 DEF ClosedInv, SweptInv, KnownInv
<1>17. CASE TellWindow
  <2>1. /\ UNCHANGED <<acceptor, connections, todo, sweep, closing, loop, client>>
        /\ Stage' = Stage /\ strand'.loop = strand.loop /\ strand.at # "insert"
    BY <1>17 DEF TellWindow, Goto, serverVars, Stage
  <2> QED
    BY <2>1 DEF ClosedInv, SweptInv, KnownInv
<1>18. CASE Erase
  <2>1. /\ UNCHANGED <<acceptor, todo, closing, loop, client>>
        /\ Stage' = Stage /\ strand'.loop = 0 /\ strand.at # "insert"
        /\ connections' = connections \ {strand.client}
        /\ sweep' = sweep \ {strand.client}
        /\ client[strand.client].socket = "closed"
    BY <1>0, <1>18 DEF Erase, Idle, Stage, StrandInv
  <2>2. ClosedInv'
    BY <2>1 DEF ClosedInv
  <2>3. SweptInv'
    BY <2>1 DEF SweptInv
  <2>4. KnownInv'
    BY <2>1 DEF KnownInv
  <2> QED
    BY <2>2, <2>3, <2>4
<1>19. CASE (\E c \in Clients : ToggleConsole(c)) \/ UNCHANGED vars
  <2>1. UNCHANGED <<acceptor, connections, todo, sweep, closing, loop, client, strand>>
    BY <1>19 DEF ToggleConsole, serverVars, vars
  <2> QED
    BY <2>1 DEF ClosedInv, SweptInv, KnownInv, Stage
<1> QED
  BY <1>1, <1>2, <1>3, <1>4, <1>5, <1>6, <1>7, <1>8, <1>9, <1>10, <1>11, <1>12, <1>13,
     <1>14, <1>15, <1>16, <1>17, <1>18, <1>19
     DEF Next, Gui, User, Network, Strand, HandlerStep

(* The program starts with a closed acceptor and without clients. *)
LEMMA InitServerInv == Init => ServerInv /\ NoDeafClient /\ ListeningAccepts
                                   /\ ConsolesInv /\ StopInv
<1> SUFFICES ASSUME Init
             PROVE  ServerInv /\ NoDeafClient /\ ListeningAccepts /\ ConsolesInv /\ StopInv
  OBVIOUS
<1>1. /\ MaxStarts \in Nat /\ MaxClients \in Nat
      /\ Loops = 1 .. MaxStarts /\ Clients = 1 .. MaxClients
  BY BoundsAssumption DEF Loops, Clients
<1>2. todo = <<>> /\ todo \in Seq(Calls) /\ Len(todo) = 0 /\ Stage = "none"
  BY DEF Init, Stage
<1>3. TypeOK
  <2>1. loop \in [Loops -> Loop] /\ client \in [Clients -> Client]
    BY <1>1 DEF Init, Loop, Client
  <2>2. strand \in [at : {"idle", "insert", "start", "read", "rearm", "stop", "tell",
                          "erase"}, client : 0 .. MaxClients, loop : 0 .. MaxStarts]
    BY <1>1 DEF Init, Idle
  <2> QED
    <3>1. /\ acceptor = "closed" /\ starts = 0 /\ accepted = 0 /\ connections = {}
          /\ lost = FALSE /\ sweep = {} /\ closing = 0 /\ overtaken = FALSE
          /\ consoles = {} /\ orphans = {}
      BY DEF Init
    <3> QED
      <4>1. todo \in Seq(Calls)
        BY <1>2
      <4>2. /\ starts \in 0 .. MaxStarts /\ accepted \in 0 .. MaxClients
            /\ connections \subseteq 1 .. accepted /\ sweep \subseteq 1 .. accepted
            /\ closing \in 0 .. MaxClients /\ consoles \cup orphans \subseteq Clients
        BY <1>1, <3>1
      <4> QED
        BY <2>1, <2>2, <3>1, <4>1, <4>2 DEF TypeOK, Calls
<1>4. CallsInv /\ LoopsInv /\ StrandInv /\ ClientsInv
  BY DEF Init, CallsInv, LoopsInv, WillAccept, StrandInv, ClientsInv, Idle
<1>5. NoDeafClient /\ ListeningAccepts /\ ConsolesInv
  BY DEF Init, NoDeafClient, ListeningAccepts, ConsolesInv, ConsolesHaveClients
<1>6. StopInv
  BY DEF Init, StopInv, ClosedInv, SweptInv, KnownInv, Idle
<1> QED
  BY <1>3, <1>4, <1>5, <1>6 DEF ServerInv

(* Whatever the user, the network and the handlers do in whatever order, the *)
(* server's variables keep their types: no handler has a client or a loop    *)
(* that does not exist.                                                      *)
THEOREM TypeCorrect == Spec => []TypeOK
<1>1. ServerInv => TypeOK
  BY DEF ServerInv
<1> QED
  BY <1>1, InitServerInv, NextServerInv, PTL DEF Spec

(* In every behaviour a client that is told to run with its socket open has  *)
(* a receive outstanding, or a handler that sees to it.                      *)
THEOREM ClientsListen == Spec => []NoDeafClient
<1>1. ServerInv /\ NoDeafClient /\ [Next]_vars => (ServerInv /\ NoDeafClient)'
  BY NextServerInv, NextNoDeafClient
<1> QED
  BY <1>1, InitServerInv, PTL DEF Spec

(* In every behaviour, across any number of stops and starts, a server that  *)
(* listens accepts, until an accept fails.                                   *)
THEOREM GoesOnAccepting == Spec => []ListeningAccepts
<1>1. ServerInv /\ ListeningAccepts /\ [Next]_vars => (ServerInv /\ ListeningAccepts)'
  BY NextServerInv, NextListeningAccepts
<1> QED
  BY <1>1, InitServerInv, PTL DEF Spec

(* In every behaviour the client a console sends to is in the set, but for   *)
(* the consoles that have lost theirs unseen.                                *)
THEOREM ConsolesKeepClients == Spec => []ConsolesHaveClients
<1>1. ServerInv /\ ConsolesInv /\ [Next]_vars => (ServerInv /\ ConsolesInv)'
  BY NextServerInv, NextConsolesInv
<1>2. ConsolesInv => ConsolesHaveClients
  BY DEF ConsolesInv
<1> QED
  BY <1>1, <1>2, InitServerInv, PTL DEF Spec

(* In every behaviour without a stop that meets an accept handler half way,  *)
(* a server at rest has its open connections in the set, and a stopped one   *)
(* has none.                                                                 *)
THEOREM StopsThoroughly == Spec => []StopIsThorough
<1>1. ServerInv /\ StopInv /\ [Next]_vars => (ServerInv /\ StopInv)'
  BY NextServerInv, NextStopInv
<1>2. StopInv => StopIsThorough
  BY DEF StopInv, ClosedInv, KnownInv, StopIsThorough, Quiet, StrandIdle, Stage
<1> QED
  BY <1>1, <1>2, InitServerInv, PTL DEF Spec

===============================================================================
