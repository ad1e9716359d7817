--------------------------- MODULE ConnectionProofs ---------------------------
(***************************************************************************)
(* Proofs about three connections: TcpClient, for any number of attempts   *)
(* and of endpoints a name resolves to; UdpConnection; and Serial, for     *)
(* any amount of work in the strand's hand.                                *)
(*                                                                         *)
(* The TCP client is extended.  The other two are instances, Udp and Ser,  *)
(* whose variables are declared where their part begins.  A name that two  *)
(* components have (socket, todo, should_run) is one variable here; no     *)
(* theorem speaks of two components, so that nothing follows from it.      *)
(***************************************************************************)
EXTENDS TcpClient, SequenceTheorems, TLAPS

-------------------------------------------------------------------------------
(* The TCP client.                                                           *)

(* What todo may hold, by the calls of connect() that it may still lead to.  *)
NoConnect == {<<>>, <<"disconnect", "close">>, <<"close">>}

(* Those that lead to one. *)
OneConnect ==
    {<<"setOptions", "isConnected">>, <<"isConnected">>,
     <<"disconnect", "close", "connect">>, <<"close", "connect">>, <<"connect">>}

(* Those that lead to two: Connect, when setOptions() connects as well. *)
TwoConnects ==
    {<<"setOptions", "isConnected", "connect">>, <<"isConnected", "connect">>,
     <<"disconnect", "close", "connect", "connect">>,
     <<"close", "connect", "connect">>, <<"connect", "connect">>}

(* A button that has begun does not run out of attempts. *)
Budget ==
    \/ todo \in NoConnect
    \/ todo \in OneConnect /\ calls + 1 <= MaxAttempts
    \/ todo \in TwoConnects /\ calls + 2 <= MaxAttempts

(* The attempts begun are the first ones, and a name that is resolved has an *)
(* endpoint.                                                                 *)
Chains ==
    \A a \in Attempts :
        /\ a > calls => attempt[a].at = "unused"
        /\ Ready(a, "resolve", "ok") => attempt[a].left > 0

(* A closed socket is not dialled: close() has aborted the dial. *)
NoDialOnClosed ==
    socket = "closed" => \A a \in Attempts : ~Ready(a, "connect", "pending")

(* The strand is about to receive for an attempt that has begun. *)
Reader == reading # 0 => attempt[reading].at \in {"connect", "read"}

(* The inductive invariant. *)
TypeInv == TypeOK /\ Budget /\ Chains /\ Reader

-------------------------------------------------------------------------------
(* What the buttons have left to do, one call after the other. *)
LEMMA NoConnectRests ==
    ASSUME NEW t \in NoConnect, t # <<>>
    PROVE  Head(t) \in {"disconnect", "close"} /\ Tail(t) \in NoConnect
<1>1. CASE t = <<"disconnect", "close">>
  BY <1>1 DEF NoConnect
<1>2. CASE t = <<"close">>
  BY <1>2 DEF NoConnect
<1> QED
  BY <1>1, <1>2 DEF NoConnect

(* After the first call of a list with one connect(). *)
LEMMA OneConnectRests ==
    ASSUME NEW t \in OneConnect
    PROVE  /\ Tail(t) \in OneConnect \cup NoConnect
           /\ Head(t) = "connect" => Tail(t) \in NoConnect
           /\ Head(t) = "isConnected" => Tail(t) = <<>>
<1>1. CASE t = <<"setOptions", "isConnected">>
  BY <1>1 DEF OneConnect
<1>2. CASE t = <<"isConnected">>
  BY <1>2 DEF NoConnect
<1>3. CASE t = <<"disconnect", "close", "connect">>
  BY <1>3 DEF OneConnect
<1>4. CASE t = <<"close", "connect">>
  BY <1>4 DEF OneConnect
<1>5. CASE t = <<"connect">>
  BY <1>5 DEF NoConnect
<1> QED
  BY <1>1, <1>2, <1>3, <1>4, <1>5 DEF OneConnect

(* After the first call of a list with two connect(). *)
LEMMA TwoConnectsRests ==
    ASSUME NEW t \in TwoConnects
    PROVE  /\ Tail(t) \in TwoConnects \cup OneConnect
           /\ Head(t) = "connect" => Tail(t) \in OneConnect
           /\ Head(t) = "isConnected" => Tail(t) = <<"connect">>
<1>1. CASE t = <<"setOptions", "isConnected", "connect">>
  BY <1>1 DEF TwoConnects
<1>2. CASE t = <<"isConnected", "connect">>
  BY <1>2 DEF OneConnect
<1>3. CASE t = <<"disconnect", "close", "connect", "connect">>
  BY <1>3 DEF TwoConnects
<1>4. CASE t = <<"close", "connect", "connect">>
  BY <1>4 DEF TwoConnects
<1>5. CASE t = <<"connect", "connect">>
  BY <1>5 DEF OneConnect
<1> QED
  BY <1>1, <1>2, <1>3, <1>4, <1>5 DEF TwoConnects

(* TcpClient::setOptions on an open socket puts a reconnect before the rest. *)
LEMMA Reconnect ==
    /\ <<"disconnect", "close", "connect">> \o <<>> =
           <<"disconnect", "close", "connect">>
    /\ <<"disconnect", "close", "connect">> \o <<"connect">> =
           <<"disconnect", "close", "connect", "connect">>
<1> DEFINE s == <<"disconnect", "close", "connect">>
           u == <<"disconnect", "close", "connect", "connect">>
<1>1. s \in Seq(Steps) /\ <<"connect">> \in Seq(Steps) /\ u \in Seq(Steps)
  BY DEF Steps
<1>2. /\ s \o <<"connect">> \in Seq(Steps)
      /\ Len(s \o <<"connect">>) = 4
      /\ \A i \in 1 .. 4 : (s \o <<"connect">>)[i] =
             IF i <= 3 THEN s[i] ELSE <<"connect">>[i - 3]
  <2>1. Len(s) = 3 /\ Len(<<"connect">>) = 1
    OBVIOUS
  <2> QED
    BY <1>1, <2>1, ConcatProperties
<1>3. \A i \in 1 .. 4 : (s \o <<"connect">>)[i] = u[i]
  BY <1>2
<1>4. s \o <<"connect">> = u
  <2>1. Len(u) = 4
    OBVIOUS
  <2> QED
    BY <1>1, <1>2, <1>3, <2>1, SeqEqual
<1> QED
  BY <1>1, <1>4, ConcatEmptySeq

(* Every plan is a sequence of steps. *)
LEMMA PlansAreSeqs ==
    NoConnect \cup OneConnect \cup TwoConnects \subseteq Seq(Steps)
BY DEF NoConnect, OneConnect, TwoConnects, Steps

-------------------------------------------------------------------------------
(* Aborting changes results only. *)
LEMMA AbortedIsAttempt ==
    ASSUME attempt \in [Attempts -> Attempt]
    PROVE  /\ Aborted(attempt) \in [Attempts -> Attempt]
           /\ \A a \in Attempts :
                  /\ Aborted(attempt)[a].at = attempt[a].at
                  /\ Aborted(attempt)[a].left = attempt[a].left
                  /\ Aborted(attempt)[a].res = "error"
                        \/ Aborted(attempt)[a].res = attempt[a].res
                  /\ ~(/\ Aborted(attempt)[a].at \in {"connect", "read"}
                       /\ Aborted(attempt)[a].res = "pending")
BY DEF Aborted, Attempt

(* The initial state is well typed and has begun nothing. *)
LEMMA InitTypeInv == Init => TypeInv
<1> SUFFICES ASSUME Init PROVE TypeInv
  OBVIOUS
<1>1. todo \in NoConnect /\ todo \in Seq(Steps)
  BY PlansAreSeqs DEF Init, NoConnect
<1>2. attempt \in [Attempts -> Attempt]
  BY BoundsAssumption DEF Init, Attempt, Waiting
<1>3. Chains
  BY DEF Init, Chains, Ready, Waiting
<1>4. TypeOK
  <2>1. calls \in 0 .. MaxAttempts /\ reading \in 0 .. MaxAttempts
    BY BoundsAssumption DEF Init
  <2>2. should_run \in BOOLEAN /\ disconnected \in BOOLEAN
    BY DEF Init
  <2>3. socket \in {"closed", "open", "connected"}
    BY DEF Init
  <2> QED
    BY <1>1, <1>2, <2>1, <2>2, <2>3 DEF TypeOK
<1>5. Budget
  BY <1>1 DEF Budget
<1>6. Reader
  BY DEF Init, Reader
<1> QED
  BY <1>3, <1>4, <1>5, <1>6 DEF TypeInv

(* A button takes its calls from a plan and stays within the attempts left.  *)
LEMMA GuiKeepsBudget ==
    ASSUME TypeInv, Gui
    PROVE  Budget' /\ todo' \in Seq(Steps) /\ calls' \in 0 .. MaxAttempts
<1> USE BoundsAssumption DEF TypeInv, TypeOK
<1>0. ASSUME Budget' PROVE todo' \in Seq(Steps)
  BY <1>0, PlansAreSeqs DEF Budget
<1>1. CASE PressConnect
  <2>1. todo' \in TwoConnects
    BY <1>1 DEF PressConnect, TwoConnects
  <2> QED
    BY <1>0, <1>1, <2>1 DEF PressConnect, Budget
<1>2. CASE PressApply
  <2>1. todo' \in OneConnect
    BY <1>2 DEF PressApply, OneConnect
  <2> QED
    BY <1>0, <1>2, <2>1 DEF PressApply, Budget
<1>3. CASE PressDisconnect
  <2>1. todo' \in NoConnect
    BY <1>3 DEF PressDisconnect, NoConnect
  <2> QED
    BY <1>0, <1>3, <2>1 DEF PressDisconnect, Budget
<1>4. ASSUME todo # <<>>, todo' = Tail(todo), calls' = calls
      PROVE  Budget' /\ calls' \in 0 .. MaxAttempts
  BY <1>4, NoConnectRests, OneConnectRests, TwoConnectsRests DEF Budget
<1>5. CASE SetOptions \/ Disconnect \/ Close
  BY <1>0, <1>4, <1>5 DEF SetOptions, Disconnect, Close, Doing
<1>6. CASE IsConnected
  <2>1. CASE socket = "closed"
    BY <1>0, <1>4, <1>6, <2>1 DEF IsConnected, Doing
  <2>2. CASE socket # "closed" /\ todo \in OneConnect /\ calls + 1 <= MaxAttempts
    <3>1. todo' = <<"disconnect", "close", "connect">>
      BY <1>6, <2>2, OneConnectRests, Reconnect DEF IsConnected, Doing
    <3>2. todo' \in OneConnect
      BY <3>1 DEF OneConnect
    <3> QED
      BY <1>0, <1>6, <2>2, <3>2 DEF IsConnected, Budget
  <2>3. CASE socket # "closed" /\ todo \in TwoConnects /\ calls + 2 <= MaxAttempts
    <3>1. todo' = <<"disconnect", "close", "connect", "connect">>
      BY <1>6, <2>3, TwoConnectsRests, Reconnect DEF IsConnected, Doing
    <3>2. todo' \in TwoConnects
      BY <3>1 DEF TwoConnects
    <3> QED
      BY <1>0, <1>6, <2>3, <3>2 DEF IsConnected, Budget
  <2> QED
    BY <1>6, <2>1, <2>2, <2>3, NoConnectRests DEF IsConnected, Doing, Budget
<1>7. CASE Connect
  <2>1. CASE todo \in NoConnect
    BY <1>7, <2>1, NoConnectRests DEF Connect, Doing
  <2>2. CASE todo \in OneConnect /\ calls + 1 <= MaxAttempts
    BY <1>0, <1>7, <2>2, OneConnectRests DEF Connect, Doing, Budget
  <2>3. CASE todo \in TwoConnects /\ calls + 2 <= MaxAttempts
    BY <1>0, <1>7, <2>3, TwoConnectsRests DEF Connect, Doing, Budget
  <2> QED
    BY <2>1, <2>2, <2>3 DEF Budget
<1> QED
  BY <1>1, <1>2, <1>3, <1>5, <1>6, <1>7 DEF Gui

(* What the GUI thread does keeps the types of the rest, and the attempts of *)
(* before: connect() begins one that nobody has used.                        *)
LEMMA GuiKeepsAttempts ==
    ASSUME TypeInv, Gui
    PROVE  /\ attempt' \in [Attempts -> Attempt]
           /\ Chains'
           /\ socket' \in {"closed", "open", "connected"}
           /\ should_run' \in BOOLEAN /\ disconnected' \in BOOLEAN
           /\ UNCHANGED reading
<1> USE BoundsAssumption DEF TypeInv, TypeOK
<1>1. CASE PressConnect \/ PressApply \/ PressDisconnect \/ SetOptions \/ IsConnected
  <2>1. UNCHANGED <<should_run, socket, attempt, calls, reading>>
    BY <1>1 DEF PressConnect, PressApply, PressDisconnect, SetOptions, IsConnected
  <2>2. disconnected' \in BOOLEAN
    BY <1>1 DEF PressConnect, PressApply, PressDisconnect, SetOptions, IsConnected
  <2> QED
    BY <2>1, <2>2 DEF Chains, Ready
<1>2. CASE Disconnect
  BY <1>2 DEF Disconnect, Chains, Ready
<1>3. CASE Close
  <2>1. attempt' = Aborted(attempt) /\ UNCHANGED <<should_run, calls, reading, disconnected>>
    BY <1>3 DEF Close
  <2>2. Chains'
    BY <2>1, AbortedIsAttempt DEF Chains, Ready
  <2> QED
    BY <1>3, <2>1, <2>2, AbortedIsAttempt DEF Close
<1>4. CASE Connect
  <2>1. calls + 1 \in Attempts
    <3>1. calls' \in 0 .. MaxAttempts
      BY <1>4, GuiKeepsBudget DEF Gui
    <3> QED
      BY <1>4, <3>1 DEF Connect, Attempts
  <2>2. Waiting("resolve", 0) \in Attempt
    BY DEF Waiting, Attempt
  <2>3. attempt' \in [Attempts -> Attempt]
    BY <1>4, <2>1, <2>2 DEF Connect
  <2>4. Chains'
    <3> SUFFICES ASSUME NEW a \in Attempts
                 PROVE  /\ a > calls' => attempt'[a].at = "unused"
                        /\ attempt'[a].at = "resolve" /\ attempt'[a].res = "ok"
                              => attempt'[a].left > 0
      BY DEF Chains, Ready
    <3>1. CASE a = calls + 1
      BY <1>4, <2>1, <3>1 DEF Connect, Waiting
    <3>2. CASE a # calls + 1
      <4>1. attempt'[a] = attempt[a]
        BY <1>4, <2>1, <3>2 DEF Connect
      <4>2. a > calls' => a > calls
        BY <1>4, <2>1 DEF Connect, Attempts
      <4> QED
        BY <4>1, <4>2 DEF Chains, Ready
    <3> QED
      BY <3>1, <3>2
  <2> QED
    BY <1>4, <2>3, <2>4 DEF Connect
<1> QED
  BY <1>1, <1>2, <1>3, <1>4 DEF Gui

(* An attempt that has begun may be given another state of it.               *)
LEMMA AttemptChanged ==
    ASSUME NEW att \in [Attempts -> Attempt], NEW a \in Attempts, NEW state \in Attempt,
           TypeOK, Chains, attempt[a].at # "unused",
           \A b \in Attempts : att[b] = attempt[b] \/ att[b] = Aborted(attempt)[b],
           attempt' = [att EXCEPT ![a] = state],
           state.at = "resolve" /\ state.res = "ok" => state.left > 0,
           calls' = calls
    PROVE  attempt' \in [Attempts -> Attempt] /\ Chains'
<1>1. attempt' \in [Attempts -> Attempt]
  OBVIOUS
<1>2. ASSUME NEW b \in Attempts
      PROVE  /\ b > calls' => attempt'[b].at = "unused"
             /\ attempt'[b].at = "resolve" /\ attempt'[b].res = "ok"
                   => attempt'[b].left > 0
  <2>1. CASE b = a
    BY <2>1 DEF Chains, Attempts, TypeOK
  <2>2. CASE b # a
    <3>1. attempt'[b] = att[b]
      BY <2>2
    <3>2. CASE att[b] = attempt[b]
      BY <3>1, <3>2 DEF Chains, Ready
    <3>3. CASE att[b] = Aborted(attempt)[b]
      BY <3>1, <3>3, AbortedIsAttempt DEF Chains, Ready, TypeOK
    <3> QED
      BY <3>2, <3>3
  <2> QED
    BY <2>1, <2>2
<1> QED
  BY <1>1, <1>2 DEF Chains, Ready

(* The states an attempt is given.                                           *)
LEMMA States ==
    /\ \A n \in 0 .. MaxEndpoints : Waiting("connect", n) \in Attempt
    /\ Done \in Attempt
    /\ Done.at = "done"
    /\ \A stage, n : Waiting(stage, n).at = stage /\ Waiting(stage, n).res = "pending"
BY BoundsAssumption DEF Waiting, Done, Attempt

(* An operation that completes is a step of its attempt.                     *)
LEMMA NetworkKeepsAttempts ==
    ASSUME TypeInv, NEW a \in Attempts, Network(a)
    PROVE  /\ attempt' \in [Attempts -> Attempt]
           /\ Chains'
           /\ \E state \in Attempt :
                  /\ state.at = attempt[a].at
                  /\ state.res # "pending"
                  /\ attempt' = [attempt EXCEPT ![a] = state]
           /\ socket' \in {"closed", "open", "connected"}
           /\ UNCHANGED <<should_run, calls, todo, reading, disconnected>>
<1> USE DEF TypeInv, TypeOK
<1>1. ASSUME NEW state \in Attempt, attempt[a].at \in {"resolve", "connect", "read"},
             state.at = attempt[a].at, state.res # "pending",
             state.at = "resolve" /\ state.res = "ok" => state.left > 0,
             attempt' = [attempt EXCEPT ![a] = state], calls' = calls
      PROVE  /\ attempt' \in [Attempts -> Attempt]
             /\ Chains'
             /\ \E st \in Attempt :
                    /\ st.at = attempt[a].at
                    /\ st.res # "pending"
                    /\ attempt' = [attempt EXCEPT ![a] = st]
  BY <1>1, AttemptChanged
<1>2. ASSUME NEW n \in 1 .. MaxEndpoints, Resolved(a, n)
      PROVE  /\ attempt' \in [Attempts -> Attempt] /\ Chains'
             /\ \E st \in Attempt :
                    /\ st.at = attempt[a].at
                    /\ st.res # "pending"
                    /\ attempt' = [attempt EXCEPT ![a] = st]
  <2> DEFINE state == [attempt[a] EXCEPT !.res = "ok", !.left = n]
  <2>1. /\ state \in Attempt /\ state.at = "resolve" /\ state.res = "ok"
        /\ state.left > 0
    <3>1. attempt[a] \in Attempt /\ attempt[a].at = "resolve"
      BY <1>2 DEF Resolved, Ready
    <3>2. n \in 0 .. MaxEndpoints /\ n > 0
      BY BoundsAssumption
    <3> QED
      BY <3>1, <3>2 DEF Attempt
  <2>2. attempt' = [attempt EXCEPT ![a] = state] /\ calls' = calls
    BY <1>2 DEF Resolved
  <2>3. attempt[a].at = "resolve"
    BY <1>2 DEF Resolved, Ready
  <2> HIDE DEF state
  <2> QED
    BY <1>1, <2>1, <2>2, <2>3
<1>3. ASSUME NEW res \in {"ok", "error"}, Complete(a, res),
             attempt[a].at \in {"resolve", "connect", "read"},
             attempt[a].at = "resolve" => res = "error", calls' = calls
      PROVE  /\ attempt' \in [Attempts -> Attempt] /\ Chains'
             /\ \E st \in Attempt :
                    /\ st.at = attempt[a].at
                    /\ st.res # "pending"
                    /\ attempt' = [attempt EXCEPT ![a] = st]
  <2> DEFINE state == [attempt[a] EXCEPT !.res = res]
  <2>1. state \in Attempt /\ state.at = attempt[a].at /\ state.res = res
    BY <1>3 DEF Attempt
  <2>2. attempt' = [attempt EXCEPT ![a] = state]
    BY <1>3 DEF Complete
  <2> HIDE DEF state
  <2> QED
    BY <1>1, <1>3, <2>1, <2>2
<1>4. CASE \E n \in 1 .. MaxEndpoints : Resolved(a, n)
  BY <1>2, <1>4 DEF Resolved
<1>5. CASE Connected(a)
  BY <1>3, <1>5 DEF Connected, Ready
<1>6. CASE Data(a)
  BY <1>3, <1>6 DEF Data, Ready
<1>7. CASE Fails(a)
  BY <1>3, <1>7 DEF Fails
<1> QED
  BY <1>4, <1>5, <1>6, <1>7 DEF Network

(* A dial and a disconnect of a handler are steps of its attempt.            *)
LEMMA HandlerKeepsAttempts ==
    ASSUME TypeInv, NEW a \in Attempts, attempt[a].at # "unused", calls' = calls,
           \/ \E n \in 0 .. MaxEndpoints : Dial(a, n)
           \/ StrandDisconnect(a)
           \/ attempt' = [attempt EXCEPT ![a] = Done]
           \/ UNCHANGED attempt
    PROVE  attempt' \in [Attempts -> Attempt] /\ Chains'
<1> USE DEF TypeInv
<1>1. CASE \E n \in 0 .. MaxEndpoints : Dial(a, n)
  <2>1. PICK n \in 0 .. MaxEndpoints :
            attempt' = [Aborted(attempt) EXCEPT ![a] = Waiting("connect", n)]
    BY <1>1 DEF Dial
  <2> QED
    BY <2>1, States, AttemptChanged, AbortedIsAttempt DEF TypeOK
<1>2. CASE StrandDisconnect(a)
  BY <1>2, States, AttemptChanged, AbortedIsAttempt DEF TypeOK, StrandDisconnect
<1>3. CASE attempt' = [attempt EXCEPT ![a] = Done]
  BY <1>3, States, AttemptChanged DEF TypeOK
<1>4. CASE UNCHANGED attempt
  BY <1>4 DEF TypeOK, Chains, Ready
<1> QED
  BY <1>1, <1>2, <1>3, <1>4

(* A handler keeps the types, and its attempt has begun.                     *)
LEMMA StrandKeepsTypes ==
    ASSUME TypeInv, NEW a \in Attempts, Strand(a)
    PROVE  /\ attempt' \in [Attempts -> Attempt]
           /\ Chains'
           /\ socket' \in {"closed", "open", "connected"}
           /\ should_run' \in BOOLEAN
           /\ reading' \in 0 .. MaxAttempts
           /\ UNCHANGED <<calls, todo, disconnected>>
<1> USE BoundsAssumption DEF TypeInv, TypeOK
<1>1. CASE OnResolve(a)
  <2>1. attempt[a].at # "unused" /\ UNCHANGED <<calls, todo, disconnected, reading>>
    BY <1>1 DEF OnResolve, Ready
  <2>2. CASE /\ Ready(a, "resolve", "ok")
             /\ Dial(a, attempt[a].left - 1) /\ UNCHANGED should_run
    <3>1. attempt[a].left - 1 \in 0 .. MaxEndpoints
      BY <2>2 DEF Chains, Attempt
    <3> QED
      BY <2>1, <2>2, <3>1, HandlerKeepsAttempts DEF Dial
  <2>3. CASE StrandDisconnect(a)
    BY <2>1, <2>3, HandlerKeepsAttempts DEF StrandDisconnect
  <2> QED
    BY <1>1, <2>2, <2>3 DEF OnResolve
<1>2. CASE OnConnect(a)
  <2>1. attempt[a].at # "unused" /\ UNCHANGED <<calls, todo, disconnected>>
    BY <1>2 DEF OnConnect
  <2>2. CASE DialAborted(a)
    BY <2>1, <2>2, HandlerKeepsAttempts DEF DialAborted, StrandDisconnect
  <2>3. CASE DialSucceeded(a)
    BY <2>1, <2>3, HandlerKeepsAttempts DEF DialSucceeded, Attempts
  <2>4. CASE DialFailed(a) /\ attempt[a].left > 0
    <3>1. attempt[a].left - 1 \in 0 .. MaxEndpoints
      BY <2>4 DEF Attempt
    <3>2. Dial(a, attempt[a].left - 1) /\ UNCHANGED <<should_run, reading>>
      BY <2>4 DEF DialFailed
    <3> QED
      BY <2>1, <3>1, <3>2, HandlerKeepsAttempts DEF Dial
  <2>5. CASE DialFailed(a) /\ ~(attempt[a].left > 0)
    BY <2>1, <2>5, HandlerKeepsAttempts DEF DialFailed, StrandDisconnect
  <2> QED
    BY <1>2, <2>2, <2>3, <2>4, <2>5 DEF OnConnect
<1>3. CASE StartRead(a)
  <2>1. PICK state \in Attempt :
            state.at = "read" /\ attempt' = [attempt EXCEPT ![a] = state]
    <3>1. PICK res \in {"pending", "error"} :
              attempt' = [attempt EXCEPT ![a] = [at |-> "read", res |-> res, left |-> 0]]
      BY <1>3 DEF StartRead
    <3>2. [at |-> "read", res |-> res, left |-> 0] \in Attempt
      BY DEF Attempt
    <3> QED
      BY <3>1, <3>2
  <2>3. attempt[a].at # "unused"
    BY <1>3 DEF StartRead, Reader
  <2>4. UNCHANGED <<should_run, socket, calls, todo, disconnected>> /\ reading' = 0
    BY <1>3 DEF StartRead
  <2>5. attempt' \in [Attempts -> Attempt] /\ Chains'
    BY <2>1, <2>3, <2>4, AttemptChanged
  <2> QED
    BY <2>4, <2>5
<1>4. CASE OnRead(a)
  <2>1. attempt[a].at # "unused" /\ UNCHANGED <<calls, todo, disconnected>>
    BY <1>4 DEF OnRead, Ready
  <2>2. CASE ReadAgain(a) /\ UNCHANGED <<should_run, socket>>
    <3>1. attempt' = [attempt EXCEPT ![a] = Done] \/ UNCHANGED attempt
      BY <2>2 DEF ReadAgain
    <3>2. reading' \in 0 .. MaxAttempts
      BY <2>2 DEF ReadAgain, Attempts
    <3> QED
      BY <2>1, <2>2, <3>1, <3>2, HandlerKeepsAttempts
  <2>3. CASE StrandDisconnect(a) /\ UNCHANGED reading
    BY <2>1, <2>3, HandlerKeepsAttempts DEF StrandDisconnect
  <2> QED
    BY <1>4, <2>2, <2>3 DEF OnRead
<1> QED
  BY <1>1, <1>2, <1>3, <1>4 DEF Strand

(* The attempt the strand receives for is not taken from it.                 *)
LEMMA NextReader == ASSUME TypeInv, Next PROVE Reader'
<1> SUFFICES ASSUME reading' # 0 PROVE attempt'[reading'].at \in {"connect", "read"}
  BY DEF Reader
<1> USE DEF TypeInv, TypeOK
<1>1. CASE Gui
  <2>1. reading' = reading /\ reading \in Attempts
    BY <1>1, GuiKeepsAttempts DEF Attempts
  <2>2. CASE UNCHANGED attempt
    BY <2>1, <2>2 DEF Reader
  <2>3. CASE Close
    BY <2>1, <2>3, AbortedIsAttempt DEF Close, Reader
  <2>4. CASE Connect
    <3>1. attempt[reading].at # "unused"
      BY <2>1 DEF Reader
    <3>2. reading # calls + 1
      BY <2>1, <3>1 DEF Chains, Attempts
    <3> QED
      BY <2>1, <2>4, <3>2 DEF Connect, Reader
  <2> QED
    BY <1>1, <2>2, <2>3, <2>4
       DEF Gui, PressConnect, PressApply, PressDisconnect, SetOptions, IsConnected,
           Disconnect
<1>2. ASSUME NEW a \in Attempts, Network(a)
      PROVE  attempt'[reading'].at \in {"connect", "read"}
  <2>1. reading' = reading /\ reading \in Attempts
    BY <1>2, NetworkKeepsAttempts DEF Attempts
  <2>2. attempt'[reading].at = attempt[reading].at
    BY <1>2, <2>1, NetworkKeepsAttempts
  <2> QED
    BY <2>1, <2>2 DEF Reader
<1>3. ASSUME NEW a \in Attempts, Strand(a)
      PROVE  attempt'[reading'].at \in {"connect", "read"}
  <2>1. CASE OnResolve(a)
    BY <2>1 DEF OnResolve
  <2>2. CASE OnConnect(a)
    BY <2>2 DEF OnConnect, DialAborted, DialSucceeded, DialFailed
  <2>3. CASE StartRead(a)
    BY <2>3 DEF StartRead
  <2>4. CASE OnRead(a)
    <3>1. CASE Ready(a, "read", "ok") /\ ReadAgain(a)
      BY <2>4, <3>1 DEF OnRead, ReadAgain, Ready
    <3>2. CASE UNCHANGED reading
      BY <2>4, <3>2 DEF OnRead
    <3> QED
      BY <2>4, <3>1, <3>2 DEF OnRead
  <2> QED
    BY <1>3, <2>1, <2>2, <2>3, <2>4 DEF Strand
<1> QED
  BY <1>1, <1>2, <1>3 DEF Next

(* Every step keeps the variables well typed, the attempts within the bound  *)
(* and in the order they were begun in.                                      *)
LEMMA NextTypeInv == TypeInv /\ [Next]_vars => TypeInv'
<1> SUFFICES ASSUME TypeInv, [Next]_vars PROVE TypeInv'
  OBVIOUS
<1>1. CASE Gui
  BY <1>1, GuiKeepsBudget, GuiKeepsAttempts, NextReader DEF TypeInv, TypeOK, Next
<1>2. ASSUME NEW a \in Attempts, Network(a)
      PROVE  TypeInv'
  BY <1>2, NetworkKeepsAttempts, NextReader DEF TypeInv, TypeOK, Next, Budget
<1>3. ASSUME NEW a \in Attempts, Strand(a)
      PROVE  TypeInv'
  BY <1>3, StrandKeepsTypes, NextReader DEF TypeInv, TypeOK, Next, Budget
<1>4. CASE UNCHANGED vars
  BY <1>4 DEF vars, TypeInv, TypeOK, Budget, Chains, Reader, Ready
<1> QED
  BY <1>1, <1>2, <1>3, <1>4 DEF Next

(* Whatever the buttons, the network and the handlers do, the client is well *)
(* typed: no handler runs out of endpoints, no button out of attempts.       *)
THEOREM TypeCorrect == Spec => []TypeOK
<1>1. TypeInv => TypeOK
  BY DEF TypeInv
<1> QED
  BY <1>1, InitTypeInv, NextTypeInv, PTL DEF Spec

-------------------------------------------------------------------------------
(* A client that runs and is connected is not left deaf by any step: only a  *)
(* handler that starts a receive, closes the socket or finds should_run_     *)
(* cleared takes a receive away (startRead, handleRead).                     *)
LEMMA NextNeverDeaf ==
    ASSUME TypeInv, NeverDeafWhileRunning, [Next]_vars
    PROVE  NeverDeafWhileRunning'
<1> DEFINE Serves(b) == \/ attempt[b].at = "read"
                        \/ attempt[b].at = "connect" /\ attempt[b].res # "pending"
<1> SUFFICES ASSUME socket' = "connected", should_run', reading' = 0
             PROVE  \E b \in Attempts : Serves(b)'
  BY DEF NeverDeafWhileRunning
<1> USE DEF TypeInv, TypeOK
<1>0. ASSUME reading = 0, socket = "connected", should_run
      PROVE  \E b \in Attempts : Serves(b)
  BY <1>0 DEF NeverDeafWhileRunning
<1>1. CASE Gui
  <2>1. CASE UNCHANGED <<socket, attempt, reading>> /\ should_run
    BY <1>0, <2>1
  <2>2. CASE Connect
    <3>1. PICK b \in Attempts : Serves(b)
      BY <1>0, <2>2 DEF Connect
    <3>2. b # calls + 1
      BY <3>1 DEF Chains, Attempts
    <3>3. attempt'[b] = attempt[b]
      BY <2>2, <3>2 DEF Connect
    <3> QED
      BY <3>1, <3>3
  <2> QED
    BY <1>1, <2>1, <2>2
       DEF Gui, PressConnect, PressApply, PressDisconnect, SetOptions, IsConnected,
           Disconnect, Close
<1>2. ASSUME NEW a \in Attempts, Network(a)
      PROVE  \E b \in Attempts : Serves(b)'
  <2>1. PICK state \in Attempt :
            /\ state.at = attempt[a].at
            /\ state.res # "pending"
            /\ attempt' = [attempt EXCEPT ![a] = state]
    BY <1>2, NetworkKeepsAttempts
  <2>2. CASE Connected(a)
    BY <2>1, <2>2 DEF Connected, Ready
  <2>3. CASE ~Connected(a)
    <3>1. UNCHANGED <<socket, should_run, reading>>
      BY <1>2, <2>3 DEF Network, Resolved, Data, Fails
    <3>2. PICK b \in Attempts : Serves(b)
      BY <1>0, <3>1
    <3> QED
      BY <2>1, <3>2
  <2> QED
    BY <2>2, <2>3
<1>3. ASSUME NEW a \in Attempts, Strand(a)
      PROVE  \E b \in Attempts : Serves(b)'
  <2>1. CASE OnResolve(a) \/ OnConnect(a)
    BY <2>1 DEF OnResolve, OnConnect, DialAborted, DialSucceeded, DialFailed, Dial,
                StrandDisconnect, Attempts
  <2>2. CASE StartRead(a)
    BY <2>2 DEF StartRead
  <2>3. CASE OnRead(a)
    <3>1. CASE ReadAgain(a) /\ UNCHANGED <<should_run, socket>>
      <4>1. should_run = TRUE
        BY <3>1
      <4> QED
        BY <3>1, <4>1 DEF ReadAgain, Attempts
    <3>2. CASE StrandDisconnect(a)
      BY <3>2 DEF StrandDisconnect
    <3> QED
      BY <2>3, <3>1, <3>2 DEF OnRead
  <2> QED
    BY <1>3, <2>1, <2>2, <2>3 DEF Strand
<1>4. CASE UNCHANGED vars
  BY <1>0, <1>4 DEF vars
<1> QED
  BY <1>1, <1>2, <1>3, <1>4 DEF Next

(* In every behaviour, however many connects overlap: a client that runs and *)
(* is connected has a receive outstanding or a handler that starts one.      *)
THEOREM NeverDeaf == Spec => []NeverDeafWhileRunning
<1>1. Init => NeverDeafWhileRunning
  BY DEF Init, NeverDeafWhileRunning
<1> QED
  BY <1>1, InitTypeInv, NextTypeInv, NextNeverDeaf, PTL DEF Spec

-------------------------------------------------------------------------------
(* No step leaves a dial outstanding on a socket it closes, or closed before:*)
(* the invariant that ClosedStaysClosed needs.                               *)
LEMMA NextNoDialOnClosed ==
    ASSUME TypeInv, NoDialOnClosed, [Next]_vars
    PROVE  NoDialOnClosed'
<1> SUFFICES ASSUME socket' = "closed", NEW b \in Attempts
             PROVE  ~(attempt'[b].at = "connect" /\ attempt'[b].res = "pending")
  BY DEF NoDialOnClosed, Ready
<1> USE DEF TypeInv, TypeOK
<1>0. ASSUME socket = "closed"
      PROVE  ~(attempt[b].at = "connect" /\ attempt[b].res = "pending")
  BY <1>0 DEF NoDialOnClosed, Ready
<1>1. CASE Gui
  <2>1. CASE UNCHANGED <<socket, attempt>>
    BY <1>0, <2>1
  <2>2. CASE Connect
    BY <1>0, <2>2 DEF Connect, Waiting
  <2>3. CASE Close
    BY <2>3, AbortedIsAttempt DEF Close
  <2> QED
    BY <1>1, <2>1, <2>2, <2>3
       DEF Gui, PressConnect, PressApply, PressDisconnect, SetOptions, IsConnected,
           Disconnect
<1>2. ASSUME NEW a \in Attempts, Network(a)
      PROVE  ~(attempt'[b].at = "connect" /\ attempt'[b].res = "pending")
  <2>1. socket = "closed"
    BY <1>2 DEF Network, Resolved, Connected, Data, Fails
  <2>2. PICK state \in Attempt :
            /\ state.at = attempt[a].at
            /\ state.res # "pending"
            /\ attempt' = [attempt EXCEPT ![a] = state]
    BY <1>2, NetworkKeepsAttempts
  <2> QED
    BY <1>0, <2>1, <2>2
<1>3. ASSUME NEW a \in Attempts, Strand(a)
      PROVE  ~(attempt'[b].at = "connect" /\ attempt'[b].res = "pending")
  <2>1. CASE StrandDisconnect(a)
    BY <2>1, AbortedIsAttempt DEF StrandDisconnect, Done
  <2>2. CASE UNCHANGED <<socket, attempt>>
    BY <1>0, <2>2
  <2>3. CASE StartRead(a)
    BY <1>0, <2>3 DEF StartRead
  <2>4. CASE UNCHANGED socket /\ attempt' = [attempt EXCEPT ![a] = Done]
    BY <1>0, <2>4 DEF Done
  <2> QED
    BY <1>3, <2>1, <2>2, <2>3, <2>4
       DEF Strand, OnResolve, OnConnect, DialAborted, DialSucceeded, DialFailed, Dial,
           OnRead, ReadAgain
<1>4. CASE UNCHANGED vars
  BY <1>0, <1>4 DEF vars
<1> QED
  BY <1>1, <1>2, <1>3, <1>4 DEF Next

(* What a step does to a closed socket and to the resolves under way.        *)
ResolveOpens ==
    /\ socket = "closed" /\ socket' # "closed" => Resolving \ Resolving' # {}
    /\ calls' = calls => Resolving' \subseteq Resolving

(* The step that dials when a name is resolved uses the resolve up.          *)
LEMMA AnswerDials ==
    ASSUME TypeInv, NEW a \in Attempts, Ready(a, "resolve", "ok"), Dial(a, attempt[a].left - 1)
    PROVE  Resolving \ Resolving' # {} /\ Resolving' \subseteq Resolving
<1>1. attempt' = [Aborted(attempt) EXCEPT ![a] = Waiting("connect", attempt[a].left - 1)]
  BY DEF Dial
<1>2. \A b \in Attempts : b # a => attempt'[b].at = attempt[b].at
  BY <1>1, AbortedIsAttempt DEF TypeInv, TypeOK
<1>3. attempt'[a].at = "connect" /\ attempt[a].at = "resolve"
  BY <1>1, AbortedIsAttempt DEF Waiting, Ready, TypeInv, TypeOK
<1> QED
  BY <1>2, <1>3 DEF Resolving

(* Every step opens a closed socket so, if at all.                           *)
LEMMA ClosedStep ==
    ASSUME TypeInv, NoDialOnClosed, Next
    PROVE  ResolveOpens
<1> USE DEF TypeInv, TypeOK
<1>1. CASE Gui
  <2>1. CASE UNCHANGED <<socket, attempt>>
    BY <2>1 DEF ResolveOpens, Resolving
  <2>2. CASE Close
    BY <2>2, AbortedIsAttempt DEF Close, ResolveOpens, Resolving
  <2>3. CASE Connect
    BY <2>3 DEF Connect, ResolveOpens
  <2> QED
    BY <1>1, <2>1, <2>2, <2>3
       DEF Gui, PressConnect, PressApply, PressDisconnect, SetOptions, IsConnected,
           Disconnect
<1>2. ASSUME NEW a \in Attempts, Network(a)
      PROVE  ResolveOpens
  <2>1. PICK state \in Attempt :
            /\ state.at = attempt[a].at
            /\ attempt' = [attempt EXCEPT ![a] = state]
    BY <1>2, NetworkKeepsAttempts
  <2>2. Resolving' = Resolving
    BY <2>1 DEF Resolving
  <2>3. socket = "closed" => socket' = "closed"
    BY <1>2 DEF Network, Resolved, Connected, Data, Fails, NoDialOnClosed
  <2> QED
    BY <2>2, <2>3 DEF ResolveOpens
<1>3. ASSUME NEW a \in Attempts, Strand(a)
      PROVE  ResolveOpens
  <2>1. CASE StrandDisconnect(a)
    BY <2>1, AbortedIsAttempt DEF StrandDisconnect, Done, ResolveOpens, Resolving
  <2>2. CASE UNCHANGED <<socket, attempt>>
    BY <2>2 DEF ResolveOpens, Resolving
  <2>3. CASE StartRead(a)
    BY <2>3 DEF StartRead, ResolveOpens, Resolving
  <2>4. CASE UNCHANGED socket /\ attempt' = [attempt EXCEPT ![a] = Done]
    BY <2>4 DEF Done, ResolveOpens, Resolving
  <2>5. CASE Ready(a, "resolve", "ok") /\ Dial(a, attempt[a].left - 1)
    BY <2>5, AnswerDials DEF ResolveOpens
  <2>6. CASE socket # "closed" /\ Dial(a, attempt[a].left - 1)
    BY <2>6, AbortedIsAttempt DEF Dial, Waiting, ResolveOpens, Resolving
  <2> QED
    BY <1>3, <2>1, <2>2, <2>3, <2>4, <2>5, <2>6
       DEF Strand, OnResolve, OnConnect, DialAborted, DialSucceeded, DialFailed,
           OnRead, ReadAgain
<1> QED
  BY <1>1, <1>2, <1>3 DEF Next

(* In every behaviour a closed connection is opened by the answer to a       *)
(* resolve only, once by each, and connect() alone starts a resolve.         *)
THEOREM StaysClosed == Spec => ClosedStaysClosed
<1>1. Init => NoDialOnClosed
  BY DEF Init, NoDialOnClosed, Ready, Waiting
<1>2. TypeInv /\ NoDialOnClosed /\ [Next]_vars => [ResolveOpens]_vars
  BY ClosedStep
<1>3. [ResolveOpens]_vars
        <=> [/\ socket = "closed" /\ socket' # "closed" => Resolving \ Resolving' # {}
             /\ calls' = calls => Resolving' \subseteq Resolving]_vars
  BY DEF ResolveOpens
<1> QED
  BY <1>1, <1>2, <1>3, InitTypeInv, NextTypeInv, NextNoDialOnClosed, PTL
     DEF Spec, ClosedStaysClosed

-------------------------------------------------------------------------------
(* The UDP connection.                                                       *)

VARIABLES listens, should_receive, read, strand, write

Udp == INSTANCE UdpConnection

(* What todo may hold: what is left of a stop, a start, or one and the other. *)
Plans ==
    {<<>>, <<"flag", "open">>, <<"open">>, <<"read">>,
     <<"unflag", "cancel">>, <<"cancel">>,
     <<"unflag", "cancel", "flag", "open">>, <<"cancel", "flag", "open">>}

(* A connection that says it receives does so: what the run checks. *)
ReceivingIsArmed == Udp!ReceivingIsArmed

(* The values of the variables, the part of the model's TypeOK that does not *)
(* say what todo may hold.                                                   *)
UdpTypes ==
    /\ {listens, should_receive} \subseteq BOOLEAN
    /\ socket \in {"closed", "open", "bound"}
    /\ read \in {"none", "pending", "data", "failed"}
    /\ strand \in {"idle", "read", "cancel"}
    /\ write \in {"free", "busy", "stuck"}

(* What has to do with a receive happens on a bound socket, which stays      *)
(* bound: the outstanding one, the handler that runs, and the one that       *)
(* startReceive() is about to start.                                         *)
BoundForReads ==
    read # "none" \/ strand # "idle" \/ todo = <<"read">> => socket = "bound"

(* disconnect() clears the flag before it aborts the receive, and no handler *)
(* sets it in between.                                                       *)
CancelIsUnflagged == Udp!Doing("cancel") => ~should_receive

(* The inductive invariant of the UDP connection. *)
UdpInv ==
    UdpTypes /\ todo \in Plans /\ BoundForReads /\ CancelIsUnflagged /\ ReceivingIsArmed

(* The plan of a button of the UDP window after its next call. *)
LEMMA PlanRests ==
    ASSUME NEW t \in Plans, t # <<>>
    PROVE  /\ Tail(t) \in Plans \ {<<"read">>}
           /\ Head(t) = "unflag" => Tail(t) # <<>> /\ Head(Tail(t)) = "cancel"
           /\ Head(t) # "unflag" /\ Tail(t) # <<>> => Head(Tail(t)) # "cancel"
           /\ Head(t) = "flag" => Tail(t) # <<>>
           /\ Head(t) = "read" => t = <<"read">>
<1>1. CASE t = <<"flag", "open">>
  BY <1>1 DEF Plans
<1>2. CASE t = <<"open">>
  BY <1>2 DEF Plans
<1>3. CASE t = <<"read">>
  BY <1>3 DEF Plans
<1>4. CASE t = <<"unflag", "cancel">>
  BY <1>4 DEF Plans
<1>5. CASE t = <<"cancel">>
  BY <1>5 DEF Plans
<1>6. CASE t = <<"unflag", "cancel", "flag", "open">>
  BY <1>6 DEF Plans
<1>7. CASE t = <<"cancel", "flag", "open">>
  BY <1>7 DEF Plans
<1> QED
  BY <1>1, <1>2, <1>3, <1>4, <1>5, <1>6, <1>7 DEF Plans

(* disconnect() and startReceive() one after the other (setOptions). *)
LEMMA StopAndStart ==
    <<"unflag", "cancel">> \o <<"flag", "open">> =
        <<"unflag", "cancel", "flag", "open">>
<1> DEFINE Calls == {"unflag", "cancel", "flag", "open"}
           s == <<"unflag", "cancel">>
           t == <<"flag", "open">>
           u == <<"unflag", "cancel", "flag", "open">>
<1>1. s \in Seq(Calls) /\ t \in Seq(Calls) /\ u \in Seq(Calls)
  OBVIOUS
<1>2. Len(s) = 2 /\ Len(t) = 2 /\ Len(u) = 4
  OBVIOUS
<1>3. /\ s \o t \in Seq(Calls)
      /\ Len(s \o t) = 4
      /\ \A i \in 1 .. 4 : (s \o t)[i] = IF i <= 2 THEN s[i] ELSE t[i - 2]
  BY <1>1, <1>2, ConcatProperties
<1>4. \A i \in 1 .. 4 : (s \o t)[i] = u[i]
  BY <1>3
<1> QED
  BY <1>1, <1>2, <1>3, <1>4, SeqEqual

(* Pressing a button, when the last one is done with, begins with a stop of  *)
(* what receives or with a start of what does not, or does nothing.          *)
LEMMA PressPlans ==
    ASSUME UdpTypes,
           \/ Udp!PressReceiving
           \/ \E protocol \in BOOLEAN : Udp!PressApply(protocol)
    PROVE  /\ todo' \in Plans \ {<<"read">>}
           /\ ~(todo' # <<>> /\ Head(todo') = "cancel")
           /\ todo = <<>>
           /\ should_receive => todo' # <<>>
           /\ UNCHANGED <<should_receive, socket, read, strand, write>>
           /\ listens' \in BOOLEAN
<1>1. \A protocol \in BOOLEAN :
          /\ Udp!StartCalls(protocol) \in {<<>>, <<"flag", "open">>}
          /\ Udp!DisconnectCalls \o Udp!StartCalls(protocol)
                 \in {<<"unflag", "cancel">>, <<"unflag", "cancel", "flag", "open">>}
  <2>1. <<"unflag", "cancel">> \o <<>> = <<"unflag", "cancel">>
    <3>1. <<"unflag", "cancel">> \in Seq({"unflag", "cancel"})
      OBVIOUS
    <3> QED
      BY <3>1, ConcatEmptySeq
  <2> QED
    BY <2>1, StopAndStart DEF Udp!StartCalls, Udp!DisconnectCalls
<1>2. CASE Udp!PressReceiving
  <2>1. todo' \in {<<"unflag", "cancel">>, <<"flag", "open">>, <<>>}
    BY <1>1, <1>2 DEF Udp!PressReceiving, Udp!DisconnectCalls, UdpTypes
  <2>2. should_receive => todo' = <<"unflag", "cancel">>
    BY <1>2 DEF Udp!PressReceiving, Udp!DisconnectCalls
  <2> QED
    BY <1>2, <2>1, <2>2 DEF Udp!PressReceiving, Plans, UdpTypes
<1>3. ASSUME NEW protocol \in BOOLEAN, Udp!PressApply(protocol)
      PROVE  /\ todo' \in {<<>>, <<"unflag", "cancel">>,
                            <<"unflag", "cancel", "flag", "open">>}
             /\ should_receive => todo' # <<>>
             /\ todo = <<>> /\ listens' = protocol
             /\ UNCHANGED <<should_receive, socket, read, strand, write>>
  BY <1>1, <1>3 DEF Udp!PressApply
<1>4. CASE \E protocol \in BOOLEAN : Udp!PressApply(protocol)
  BY <1>3, <1>4 DEF Plans
<1> QED
  BY <1>2, <1>4

(* A connection that is opened receives nothing and has no plan. *)
LEMMA InitUdpInv == Udp!Init => UdpInv
<1> SUFFICES ASSUME Udp!Init PROVE UdpInv
  OBVIOUS
<1>1. UdpTypes
  BY DEF Udp!Init, UdpTypes
<1>2. todo = <<>> /\ todo # <<"read">>
  BY DEF Udp!Init
<1> QED
  BY <1>1, <1>2 DEF Udp!Init, UdpInv, Plans, BoundForReads, CancelIsUnflagged, Udp!Doing,
     ReceivingIsArmed, Udp!ReceivingIsArmed

(* No button, result or handler of a UDP connection breaks its invariant. *)
LEMMA NextUdpInv == UdpInv /\ [Udp!Next]_(Udp!vars) => UdpInv'
<1> SUFFICES ASSUME UdpInv, [Udp!Next]_(Udp!vars) PROVE UdpInv'
  OBVIOUS
<1>0. UdpTypes /\ todo \in Plans
  BY DEF UdpInv
<1>1. CASE \/ Udp!PressReceiving
           \/ \E protocol \in BOOLEAN : Udp!PressApply(protocol)
  <2>1. /\ todo' \in Plans \ {<<"read">>}
        /\ ~(todo' # <<>> /\ Head(todo') = "cancel")
        /\ todo = <<>>
        /\ should_receive => todo' # <<>>
        /\ UNCHANGED <<should_receive, socket, read, strand, write>>
        /\ listens' \in BOOLEAN
    BY <1>0, <1>1, PressPlans
  <2> QED
    BY <2>1 DEF UdpInv, UdpTypes, BoundForReads, CancelIsUnflagged, Udp!Doing,
                ReceivingIsArmed, Udp!ReceivingIsArmed
<1>2. CASE Udp!SetFlag
  <2>1. todo # <<>> /\ Head(todo) \in {"flag", "unflag"} /\ todo' = Tail(todo)
    BY <1>2 DEF Udp!SetFlag, Udp!Doing
  <2>2. todo' \in Plans \ {<<"read">>}
    BY <1>0, <2>1, PlanRests
  <2>3. CancelIsUnflagged' /\ todo' # <<>>
    BY <1>0, <1>2, <2>1, PlanRests DEF Udp!SetFlag, Udp!Doing, CancelIsUnflagged
  <2> QED
    BY <1>2, <2>2, <2>3 DEF UdpInv, Udp!SetFlag, UdpTypes, BoundForReads,
                             ReceivingIsArmed, Udp!ReceivingIsArmed
<1>3. CASE Udp!Cancel
  <2>1. todo # <<>> /\ Head(todo) = "cancel" /\ todo' = Tail(todo)
    BY <1>3 DEF Udp!Cancel, Udp!Doing
  <2>2. todo' \in Plans \ {<<"read">>} /\ ~(todo' # <<>> /\ Head(todo') = "cancel")
    BY <1>0, <2>1, PlanRests
  <2>3. ~should_receive'
    BY <1>3 DEF UdpInv, CancelIsUnflagged, Udp!Cancel
  <2> QED
    BY <1>3, <2>2, <2>3 DEF UdpInv, Udp!Cancel, Udp!Cancelled, UdpTypes, BoundForReads,
                             CancelIsUnflagged, Udp!Doing, ReceivingIsArmed,
                             Udp!ReceivingIsArmed
<1>4. CASE Udp!Open
  <2>1. todo' \in {<<>>, <<"read">>} /\ ~(todo' # <<>> /\ Head(todo') = "cancel")
    BY <1>4 DEF Udp!Open
  <2>2. todo' = <<"read">> => socket' = "bound"
    BY <1>4 DEF Udp!Open
  <2>3. todo' = <<>> => ~should_receive'
    BY <1>4 DEF Udp!Open
  <2>4. UdpTypes' /\ (socket = "bound" => socket' = "bound")
    BY <1>0, <1>4 DEF Udp!Open, UdpTypes
  <2>5. UNCHANGED <<read, strand>>
    BY <1>4 DEF Udp!Open
  <2> QED
    BY <2>1, <2>2, <2>3, <2>4, <2>5 DEF UdpInv, Plans, BoundForReads, CancelIsUnflagged,
       Udp!Doing, ReceivingIsArmed, Udp!ReceivingIsArmed
<1>5. CASE Udp!StartRead
  <2>1. todo = <<"read">> /\ todo' = <<>>
    BY <1>0, <1>5, PlanRests DEF Udp!StartRead, Udp!Doing
  <2> QED
    BY <1>5, <2>1 DEF UdpInv, Udp!StartRead, UdpTypes, Plans, BoundForReads,
                       CancelIsUnflagged, Udp!Doing, ReceivingIsArmed,
                       Udp!ReceivingIsArmed
<1>6. CASE Udp!Send \/ Udp!Sent
  BY <1>6 DEF UdpInv, Udp!Send, Udp!Sent, UdpTypes, BoundForReads, CancelIsUnflagged,
              Udp!Doing, ReceivingIsArmed, Udp!ReceivingIsArmed
<1>7. CASE Udp!ReadEnds
  BY <1>7 DEF UdpInv, Udp!ReadEnds, UdpTypes, BoundForReads, CancelIsUnflagged, Udp!Doing,
              ReceivingIsArmed, Udp!ReceivingIsArmed
<1>8. CASE Udp!HandleRead
  <2>1. read # "none" /\ socket = "bound" /\ UNCHANGED <<listens, socket, todo, write>>
    BY <1>8 DEF Udp!HandleRead, UdpInv, BoundForReads
  <2>2. UdpTypes'
    BY <1>0, <1>8 DEF Udp!HandleRead, UdpTypes
  <2>3. should_receive' => should_receive /\ strand' = "read"
    BY <1>8 DEF Udp!HandleRead
  <2> QED
    BY <2>1, <2>2, <2>3 DEF UdpInv, BoundForReads, CancelIsUnflagged, Udp!Doing,
       ReceivingIsArmed, Udp!ReceivingIsArmed
<1>9. CASE Udp!ReadAgain
  BY <1>9 DEF UdpInv, Udp!ReadAgain, UdpTypes, BoundForReads, CancelIsUnflagged, Udp!Doing,
              ReceivingIsArmed, Udp!ReceivingIsArmed
<1>10. CASE Udp!StrandCancel
  BY <1>10 DEF UdpInv, Udp!StrandCancel, Udp!Cancelled, UdpTypes, BoundForReads,
               CancelIsUnflagged, Udp!Doing, ReceivingIsArmed, Udp!ReceivingIsArmed
<1>11. CASE UNCHANGED Udp!vars
  BY <1>11 DEF UdpInv, Udp!vars, UdpTypes, BoundForReads, CancelIsUnflagged, Udp!Doing,
              ReceivingIsArmed, Udp!ReceivingIsArmed
<1> QED
  BY <1>1, <1>2, <1>3, <1>4, <1>5, <1>6, <1>7, <1>8, <1>9, <1>10, <1>11
     DEF Udp!Next, Udp!Gui, Udp!Strand

(* In every behaviour of a UDP connection the variables keep their types,    *)
(* and what is outstanding is outstanding on a bound socket.                 *)
THEOREM UdpTypeCorrect == Udp!Spec => []Udp!TypeOK
<1>1. UdpInv => Udp!TypeOK
  <2>1. Plans \subseteq Seq({"flag", "unflag", "cancel", "open", "read"})
    BY DEF Plans
  <2> QED
    BY <2>1 DEF UdpInv, UdpTypes, BoundForReads, Udp!TypeOK
<1> QED
  BY <1>1, InitUdpInv, NextUdpInv, PTL DEF Udp!Spec

(* In every behaviour a UDP connection that says it receives, with no button *)
(* half way, has a receive outstanding or a handler to run that starts one   *)
(* or says that it does not receive any more (startReceive, handleRead).     *)
THEOREM ReceivesWhatItSays == Udp!Spec => []ReceivingIsArmed
<1>1. UdpInv => ReceivingIsArmed
  BY DEF UdpInv
<1> QED
  BY <1>1, InitUdpInv, NextUdpInv, PTL DEF Udp!Spec

(* A stopped connection starts one receive more at most: what the run checks.*)
SilentStaysSilent == Udp!SilentStaysSilent

(* A step of a stopped connection that belongs to no button starts a receive *)
(* only if a handler was about to, and brings no other handler there.        *)
LEMMA StoppedStep ==
    ASSUME [Udp!Next]_(Udp!vars), Udp!Stopped, todo' = todo
    PROVE  /\ ~should_receive'
           /\ strand' = "read" => strand = "read"
           /\ read' = "pending" /\ read # "pending" => strand = "read" /\ strand' # "read"
<1>1. ~should_receive /\ todo = <<>>
  BY DEF Udp!Stopped
<1>2. CASE \/ Udp!PressReceiving
           \/ \E protocol \in BOOLEAN : Udp!PressApply(protocol)
  BY <1>1, <1>2 DEF Udp!PressReceiving, Udp!PressApply
<1>3. CASE Udp!SetFlag \/ Udp!Cancel \/ Udp!Open \/ Udp!StartRead
  BY <1>1, <1>3 DEF Udp!SetFlag, Udp!Cancel, Udp!Open, Udp!StartRead, Udp!Doing
<1>4. CASE Udp!Send \/ Udp!Sent \/ UNCHANGED Udp!vars
  BY <1>1, <1>4 DEF Udp!Send, Udp!Sent, Udp!vars
<1>5. CASE Udp!ReadEnds \/ Udp!ReadAgain
  BY <1>1, <1>5 DEF Udp!ReadEnds, Udp!ReadAgain
<1>6. CASE Udp!HandleRead
  BY <1>1, <1>6 DEF Udp!HandleRead
<1>7. CASE Udp!StrandCancel
  BY <1>1, <1>7 DEF Udp!StrandCancel, Udp!Cancelled
<1> QED
  BY <1>2, <1>3, <1>4, <1>5, <1>6, <1>7 DEF Udp!Next, Udp!Gui, Udp!Strand

(* In every behaviour a UDP connection that is stopped starts no receive     *)
(* until its window does, but for the one of a handler behind its test       *)
(* (handleRead, disconnect).                                                 *)
THEOREM StoppedStaysStopped == Udp!Spec => SilentStaysSilent
<1> DEFINE OneAtMost ==
        Udp!Stopped /\ todo' = todo =>
          /\ ~should_receive'
          /\ strand' = "read" => strand = "read"
          /\ read' = "pending" /\ read # "pending" => strand = "read" /\ strand' # "read"
<1>1. [Udp!Next]_(Udp!vars) => [OneAtMost]_(Udp!vars)
  BY StoppedStep
<1> QED
  BY <1>1, PTL DEF Udp!Spec, SilentStaysSilent, Udp!SilentStaysSilent

-------------------------------------------------------------------------------
(* The serial connection.                                                    *)

CONSTANT MaxWork

VARIABLES shown, opts, applied, port, posted, pending, got, failed, opening, closing, alive

Ser == INSTANCE Serial

(* An open port is heard: what the run checks. *)
OpenIsServed == Ser!OpenIsServed

(* The inductive invariant of the serial connection. *)
SerialInv == Ser!TypeOK /\ OpenIsServed

Calls == {"doOpen", "doClose", "doRead"}

(* A call that is posted comes after the others, which stay posted. *)
LEMMA PostedIsPosted ==
    ASSUME posted \in Seq(Calls), NEW call \in Calls, posted' = Append(posted, call)
    PROVE  /\ posted' \in Seq(Calls)
           /\ Ser!IsPosted(call)'
           /\ \A other : Ser!IsPosted(other) => Ser!IsPosted(other)'
<1>1. posted' \in Seq(Calls) /\ Len(posted') = Len(posted) + 1 /\ Len(posted) \in Nat
  OBVIOUS
<1>2. posted'[Len(posted) + 1] = call
  OBVIOUS
<1>3. \A k \in 1 .. Len(posted) : posted'[k] = posted[k]
  OBVIOUS
<1>4. DOMAIN posted = 1 .. Len(posted) /\ DOMAIN posted' = 1 .. Len(posted) + 1
  BY <1>1
<1> QED
  BY <1>1, <1>2, <1>3, <1>4 DEF Ser!IsPosted

(* The strand takes the first call; those after it stay posted. *)
LEMMA OthersStayPosted ==
    ASSUME posted \in Seq(Calls), NEW call \in Calls, Ser!Running(call),
           posted' = Tail(posted)
    PROVE  /\ posted' \in Seq(Calls)
           /\ \A other : other # call /\ Ser!IsPosted(other) => Ser!IsPosted(other)'
<1>1. posted # <<>> /\ posted[1] = call
  BY DEF Ser!Running
<1>2. /\ posted' \in Seq(Calls) /\ Len(posted) \in Nat
      /\ DOMAIN posted = 1 .. Len(posted) /\ DOMAIN posted' = 1 .. Len(posted) - 1
      /\ \A k \in 1 .. Len(posted) - 1 : posted'[k] = posted[k + 1]
  BY <1>1
<1>3. ASSUME NEW other, other # call, NEW k \in DOMAIN posted, posted[k] = other
      PROVE  k - 1 \in DOMAIN posted' /\ posted'[k - 1] = other
  <2>1. k \in Nat /\ k # 1
    BY <1>1, <1>2, <1>3
  <2> QED
    BY <1>2, <1>3, <2>1
<1> QED
  BY <1>2, <1>3 DEF Ser!IsPosted

(* The program starts with a closed port. *)
LEMMA InitSerialInv == Ser!Init => SerialInv
<1> SUFFICES ASSUME Ser!Init PROVE SerialInv
  OBVIOUS
<1>1. posted \in Seq(Calls) /\ port = "closed"
  BY DEF Ser!Init
<1>2. {shown, opts, applied} \subseteq Ser!Parity
  BY DEF Ser!Init
<1>3. Ser!TypeOK
  <2>1. {pending, got, failed} \subseteq Nat /\ ~(pending > 0)
    BY DEF Ser!Init
  <2>2. {should_run, opening, closing, alive} \subseteq BOOLEAN
    BY DEF Ser!Init
  <2> QED
    BY <1>1, <1>2, <2>1, <2>2 DEF Ser!TypeOK, Calls
<1> QED
  BY <1>1, <1>3 DEF SerialInv, OpenIsServed, Ser!OpenIsServed

(* No button, result, posted call or handler of a serial connection breaks   *)
(* its types or leaves an open port deaf.                                    *)
LEMMA NextSerialInv == SerialInv /\ [Ser!Next]_(Ser!vars) => SerialInv'
<1> SUFFICES ASSUME SerialInv, [Ser!Next]_(Ser!vars) PROVE SerialInv'
  OBVIOUS
<1>0. Ser!TypeOK /\ OpenIsServed
  BY DEF SerialInv
<1>1. CASE \E p \in Ser!Parity : Ser!Choose(p)
  <2>1. PICK p \in Ser!Parity : Ser!Choose(p)
    BY <1>1
  <2>2. Ser!TypeOK'
    BY <1>0, <2>1 DEF Ser!Choose, Ser!TypeOK
  <2>3. UNCHANGED <<port, should_run, posted, pending, got, failed, opening, closing, alive>>
    BY <2>1 DEF Ser!Choose
  <2> QED
    BY <1>0, <2>2, <2>3 DEF SerialInv, OpenIsServed, Ser!OpenIsServed, Ser!IsPosted
<1>2. CASE Ser!PressConnect
  <2>1. posted' = Append(posted, "doOpen") /\ posted \in Seq(Calls)
    BY <1>0, <1>2 DEF Ser!PressConnect, Ser!TypeOK, Calls
  <2>2. Ser!TypeOK'
    BY <1>0, <1>2, <2>1, PostedIsPosted DEF Ser!PressConnect, Ser!TypeOK, Calls
  <2>3. OpenIsServed'
    BY <1>2 DEF Ser!PressConnect, OpenIsServed, Ser!OpenIsServed
  <2> QED
    BY <2>2, <2>3 DEF SerialInv
<1>3. CASE Ser!PressDisconnect
  BY <1>0, <1>3 DEF Ser!PressDisconnect, Ser!settings, SerialInv, Ser!TypeOK,
                    OpenIsServed, Ser!OpenIsServed
<1>4. CASE Ser!PostClose
  <2>1. posted' = Append(posted, "doClose") /\ posted \in Seq(Calls)
    BY <1>0, <1>4 DEF Ser!PostClose, Ser!TypeOK, Calls
  <2>2. posted' \in Seq(Calls) /\ Ser!IsPosted("doClose")'
    BY <2>1, PostedIsPosted DEF Calls
  <2>3. Ser!TypeOK'
    BY <1>0, <1>4, <2>2 DEF Ser!PostClose, Ser!settings, Ser!TypeOK, Calls
  <2> QED
    BY <2>2, <2>3 DEF SerialInv, OpenIsServed, Ser!OpenIsServed
<1>5. CASE Ser!ReadEnds
  <2>1. Ser!TypeOK'
    BY <1>0, <1>5 DEF Ser!ReadEnds, Ser!settings, Ser!TypeOK
  <2>2. got' + failed' > 0
    BY <1>0, <1>5 DEF Ser!ReadEnds, Ser!TypeOK
  <2>3. pending' + got' + failed' > 0
    BY <2>1, <2>2 DEF Ser!TypeOK
  <2>4. UNCHANGED <<port, should_run, posted, opening, closing, alive>>
    BY <1>5 DEF Ser!ReadEnds
  <2> QED
    BY <1>0, <2>1, <2>3, <2>4 DEF SerialInv, OpenIsServed, Ser!OpenIsServed, Ser!IsPosted
<1>6. CASE Ser!DoClose
  <2>1. posted' \in Seq(Calls)
    BY <1>0, <1>6, OthersStayPosted DEF Ser!DoClose, Ser!TypeOK, Calls
  <2>2. {pending', got', failed'} \subseteq Nat /\ ~(pending' > 0) /\ port' = "closed"
    BY <1>0, <1>6 DEF Ser!DoClose, Ser!Closed, Ser!TypeOK
  <2>3. Ser!TypeOK'
    BY <1>0, <1>6, <2>1, <2>2 DEF Ser!DoClose, Ser!settings, Ser!TypeOK, Calls
  <2> QED
    BY <2>2, <2>3 DEF SerialInv, OpenIsServed, Ser!OpenIsServed
<1>7. CASE Ser!DoOpen
  <2>1. posted' \in Seq(Calls)
    BY <1>0, <1>7, OthersStayPosted DEF Ser!DoOpen, Ser!TypeOK, Calls
  <2>2. {pending', got', failed'} \subseteq Nat /\ ~(pending' > 0)
    BY <1>0, <1>7 DEF Ser!DoOpen, Ser!TypeOK
  <2>3. Ser!TypeOK'
    BY <1>0, <1>7, <2>1, <2>2 DEF Ser!DoOpen, Ser!TypeOK, Calls
  <2>4. opening' \/ port' = "closed"
    BY <1>7 DEF Ser!DoOpen
  <2> QED
    BY <2>3, <2>4 DEF SerialInv, OpenIsServed, Ser!OpenIsServed
<1>8. CASE Ser!Configure
  <2>1. CASE alive' = FALSE /\ UNCHANGED <<applied, should_run, posted>>
    <3>1. Ser!TypeOK'
      BY <1>0, <1>8, <2>1 DEF Ser!Configure, Ser!TypeOK
    <3> QED
      BY <2>1, <3>1 DEF SerialInv, OpenIsServed, Ser!OpenIsServed
  <2>2. CASE /\ applied' = Ser!PortParity(opts)
             /\ should_run' = TRUE
             /\ posted' = Append(posted, "doRead")
             /\ UNCHANGED alive
    <3>1. posted' \in Seq(Calls) /\ Ser!IsPosted("doRead")'
      BY <1>0, <2>2, PostedIsPosted DEF Ser!TypeOK, Calls
    <3>2. applied' \in Ser!Parity
      BY <1>0, <2>2 DEF Ser!PortParity, Ser!Parity, Ser!TypeOK
    <3>3. Ser!TypeOK'
      BY <1>0, <1>8, <2>2, <3>1, <3>2 DEF Ser!Configure, Ser!TypeOK, Calls
    <3> QED
      BY <2>2, <3>1, <3>3 DEF SerialInv, OpenIsServed, Ser!OpenIsServed
  <2> QED
    BY <1>8, <2>1, <2>2 DEF Ser!Configure
<1>9. CASE Ser!DoRead
  <2>1. /\ posted' \in Seq(Calls)
        /\ Ser!IsPosted("doClose") => Ser!IsPosted("doClose")'
    BY <1>0, <1>9, OthersStayPosted DEF Ser!DoRead, Ser!TypeOK, Calls
  <2>2. Ser!TypeOK'
    BY <1>0, <1>9, <2>1 DEF Ser!DoRead, Ser!settings, Ser!TypeOK, Calls
  <2>3. pending' + failed' > 0 /\ got' \in Nat
    BY <1>0, <1>9 DEF Ser!DoRead, Ser!TypeOK
  <2>4. pending' + got' + failed' > 0
    BY <2>2, <2>3 DEF Ser!TypeOK
  <2>5. UNCHANGED <<port, should_run, opening, closing, alive>>
    BY <1>9 DEF Ser!DoRead
  <2> QED
    BY <1>0, <2>1, <2>2, <2>4, <2>5 DEF SerialInv, OpenIsServed, Ser!OpenIsServed
<1>10. CASE Ser!HandleData
  <2>1. CASE should_run
    <3>1. /\ posted' \in Seq(Calls) /\ Ser!IsPosted("doRead")'
          /\ Ser!IsPosted("doClose") => Ser!IsPosted("doClose")'
      BY <1>0, <1>10, <2>1, PostedIsPosted DEF Ser!HandleData, Ser!TypeOK, Calls
    <3>2. Ser!TypeOK'
      BY <1>0, <1>10, <3>1 DEF Ser!HandleData, Ser!settings, Ser!TypeOK, Calls
    <3>3. should_run'
      BY <1>10, <2>1 DEF Ser!HandleData
    <3> QED
      BY <3>1, <3>2, <3>3 DEF SerialInv, OpenIsServed, Ser!OpenIsServed
  <2>2. CASE ~should_run
    <3>1. Ser!TypeOK' /\ UNCHANGED <<port, posted, opening, closing, alive>>
      BY <1>0, <1>10, <2>2 DEF Ser!HandleData, Ser!settings, Ser!TypeOK
    <3>2. ~(port = "open" /\ ~opening /\ ~closing /\ ~Ser!IsPosted("doClose") /\ alive)
      BY <1>0, <2>2 DEF OpenIsServed, Ser!OpenIsServed
    <3> QED
      BY <3>1, <3>2 DEF SerialInv, OpenIsServed, Ser!OpenIsServed, Ser!IsPosted
  <2> QED
    BY <2>1, <2>2
<1>11. CASE Ser!HandleError
  <2>1. {pending', got', failed'} \subseteq Nat /\ ~(pending' > 0) /\ port' = "closed"
    BY <1>0, <1>11 DEF Ser!HandleError, Ser!TypeOK
  <2>2. Ser!TypeOK'
    BY <1>0, <1>11, <2>1 DEF Ser!HandleError, Ser!settings, Ser!TypeOK
  <2> QED
    BY <2>1, <2>2 DEF SerialInv, OpenIsServed, Ser!OpenIsServed
<1>12. CASE UNCHANGED Ser!vars
  BY <1>0, <1>12 DEF Ser!vars, SerialInv, Ser!TypeOK, OpenIsServed, Ser!OpenIsServed,
                     Ser!IsPosted
<1> QED
  BY <1>1, <1>2, <1>3, <1>4, <1>5, <1>6, <1>7, <1>8, <1>9, <1>10, <1>11, <1>12
     DEF Ser!Next, Ser!Gui, Ser!Strand, Ser!Posted

(* In every behaviour of a serial connection the variables keep their types, *)
(* and what is outstanding is outstanding on an open port.                   *)
THEOREM SerialTypeCorrect == Ser!Spec => []Ser!TypeOK
<1>1. SerialInv => Ser!TypeOK
  BY DEF SerialInv
<1> QED
  BY <1>1, InitSerialInv, NextSerialInv, PTL DEF Ser!Spec

(* In every behaviour an open port is heard, unless it is being closed:      *)
(* should_run_ is set, and a read is outstanding, posted, or about to be     *)
(* posted by a handler (doOpen, doClose, the handlers of startRead).         *)
THEOREM OpenPortIsHeard == Ser!Spec => []OpenIsServed
<1>1. SerialInv => OpenIsServed
  BY DEF SerialInv
<1> QED
  BY <1>1, InitSerialInv, NextSerialInv, PTL DEF Ser!Spec

(* The close that the user has asked for: it is about to be posted, or is. *)
CloseDue == closing \/ Ser!IsPosted("doClose")

(* No call, read or error takes it away before the port is closed. *)
CloseIsKept == [][CloseDue => CloseDue' \/ port' = "closed"]_(Ser!vars)

(* In every behaviour a Disconnect is kept until the port is closed: neither *)
(* an open nor a read that the strand runs before doClose takes its place    *)
(* (close, doClose, doOpen).  With fairness, it is why Disconnect closes.    *)
THEOREM DisconnectKept == Ser!Spec => CloseIsKept
<1>1. SerialInv /\ [Ser!Next]_(Ser!vars) =>
          [CloseDue => CloseDue' \/ port' = "closed"]_(Ser!vars)
  <2> SUFFICES ASSUME SerialInv, Ser!Next, CloseDue
               PROVE  CloseDue' \/ port' = "closed"
    OBVIOUS
  <2>0. posted \in Seq(Calls)
    BY DEF SerialInv, Ser!TypeOK, Calls
  <2>1. CASE UNCHANGED <<closing, posted>>
    BY <2>1 DEF CloseDue, Ser!IsPosted
  <2>2. ASSUME NEW call \in Calls, posted' = Append(posted, call),
               closing' = closing \/ call = "doClose"
        PROVE  CloseDue'
    BY <2>0, <2>2, PostedIsPosted DEF CloseDue
  <2>3. CASE closing'
    BY <2>3 DEF CloseDue
  <2>4. ASSUME NEW call \in Calls, Ser!Running(call), posted' = Tail(posted),
               closing' = closing, call # "doClose"
        PROVE  CloseDue'
    BY <2>0, <2>4, OthersStayPosted DEF CloseDue
  <2>5. CASE Ser!Gui
    <3>1. UNCHANGED <<closing, posted>> \/ closing'
          \/ \E call \in Calls : posted' = Append(posted, call)
                                 /\ (closing' = closing \/ call = "doClose")
      BY <2>5 DEF Ser!Gui, Ser!Choose, Ser!PressConnect, Ser!PressDisconnect, Ser!PostClose,
                  Calls
    <3> QED
      BY <2>1, <2>2, <2>3, <3>1
  <2>6. CASE Ser!ReadEnds \/ Ser!HandleError
    BY <2>1, <2>6 DEF Ser!ReadEnds, Ser!HandleError
  <2>7. CASE Ser!HandleData \/ Ser!Configure
    <3>1. UNCHANGED <<closing, posted>>
          \/ (posted' = Append(posted, "doRead") /\ closing' = closing)
      BY <2>7 DEF Ser!HandleData, Ser!Configure
    <3> QED
      BY <2>1, <2>2, <3>1 DEF Calls
  <2>8. CASE Ser!DoClose
    BY <2>8 DEF Ser!DoClose, Ser!Closed
  <2>9. CASE Ser!DoOpen
    BY <2>4, <2>9 DEF Ser!DoOpen, Calls
  <2>10. CASE Ser!DoRead
    BY <2>4, <2>10 DEF Ser!DoRead, Calls
  <2> QED
    BY <2>5, <2>6, <2>7, <2>8, <2>9, <2>10 DEF Ser!Next, Ser!Strand, Ser!Posted
<1> QED
  BY <1>1, InitSerialInv, NextSerialInv, PTL DEF Ser!Spec, CloseIsKept

===============================================================================
