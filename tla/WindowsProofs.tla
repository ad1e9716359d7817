----------------------------- MODULE WindowsProofs -----------------------------
(***************************************************************************)
(* Proofs about Windows, for any number of consoles and of data received.  *)
(***************************************************************************)
EXTENDS Windows, SequenceTheorems, TLAPS

(* A sequence of numbers that rises, and what is in it. *)
Rising(s) == \A i, j \in DOMAIN s : i < j => s[i] < s[j]
Items(s) == {s[i] : i \in DOMAIN s}

(* A window that is shown has its connection, and the WindowManager no       *)
(* console but the one of the window; after it there is none.                *)
OwnerInv ==
    /\ window = "none" =>
           registered = {} /\ connection = "none" /\ op = "none"
    /\ window = "shown" =>
           registered = {raw_win_} \ {None} /\ connection = "alive"
    /\ window # "shown" => raw_win_ = None
    /\ gui \in {"connection_manager_", "win_manager_", "gone"} => window # "shown"
    /\ raw_win_ # None => raw_win_ <= made /\ raw_win_ \in Items(slots)
    /\ watching \subseteq {raw_win_} \ {None}

(* The slots are connected in the order the consoles are made, and called so;*)
(* outside an emission none is.                                              *)
SlotsInv ==
    /\ Rising(slots) /\ Items(slots) \subseteq 0 .. made
    /\ Rising(calls) /\ Items(calls) \subseteq 0 .. made
    /\ op # "running" => calls = <<>> /\ locked = None
    /\ locked = None => target = None
    /\ target <= made
    /\ op \in {"done", "running"} => datum >= 1

(* What a console shows is received in order, and the datum of the emission  *)
(* is given to none before the emission begins.                              *)
ShownInv ==
    /\ \A k \in Consoles :
           /\ Rising(shown[k]) /\ Items(shown[k]) \subseteq 1 .. datum
           /\ k > made => shown[k] = <<>>
    /\ op = "done" => \A k \in Consoles : datum \notin Items(shown[k])

(* The consoles that have been given the datum.                              *)
Given == {k \in Consoles : datum \in Items(shown[k])}

(* A slot that is yet to be called writes to a console that has not been     *)
(* given the datum, and the console that is watched has been given it, or    *)
(* will be.                                                                  *)
EmissionInv ==
    op = "running" =>
        /\ Items(calls) \cap Given = {}
        /\ locked # None /\ target = None => 
               raw_win_ \notin (Given \cup Items(calls)) \ {None}
        /\ target # None => target \notin Given \cup Items(calls)
        /\ \A k \in watching :
               \/ k \in Items(calls) \cup Given
               \/ locked # None /\ target \in {None, k}

(* Whose destructor sleeps, which operations a connection may have, and how  *)
(* many handlers are queued.                                                 *)
LineInv ==
    /\ plugin \/ connection = "none" => ~sleeps
    /\ connection = "closing" => sleeps
    /\ op = "resolving" => sleeps
    /\ connection = "destroyed" => op \notin {"resolving", "pending"} /\ ~opened
    /\ op # "none" => aborted + 1 <= MaxAborted
    /\ window = "none" => aborted = 0

(* What is gone is used for a reason, and the reason is there before the use.*)
CauseInv ==
    /\ HarmHasItsCause
    /\ connection = "destroyed" /\ (op # "none" \/ aborted > 0) => "outstanding" \in hasty
    /\ window = "destroyed" /\ registered # {} => "console" \in hasty
    /\ hasty \cap {"console", "slot"} = {} =>
           /\ locked # None => raw_win_ = locked
           /\ target # None => target = locked
    /\ gui = "run" /\ Plugin \in Items(slots) => plugin
    /\ Plugin \in Items(slots) /\ op # "none" => plugin \/ "wrapper" \in hasty
    /\ Plugin \in Items(calls) => plugin \/ "wrapper" \in hasty

(* The inductive invariant that the theorems share. *)
WindowsInv == TypeOK /\ OwnerInv /\ LineInv /\ SlotsInv /\ ShownInv

-------------------------------------------------------------------------------
(* Taking the head of a rising sequence leaves a rising one without it. *)
LEMMA RisingTail ==
    ASSUME NEW s \in Seq(Nat), s # <<>>, Rising(s)
    PROVE  /\ Rising(Tail(s)) /\ Tail(s) \in Seq(Nat)
           /\ Items(Tail(s)) = Items(s) \ {Head(s)}
           /\ Head(s) \in Items(s)
<1>1. /\ Tail(s) \in Seq(Nat) /\ Len(s) \in Nat \ {0} /\ Len(Tail(s)) = Len(s) - 1
      /\ \A i \in 1 .. Len(s) - 1 : Tail(s)[i] = s[i + 1]
      /\ Head(s) = s[1] /\ DOMAIN s = 1 .. Len(s)
      /\ DOMAIN Tail(s) = 1 .. Len(s) - 1
  OBVIOUS
<1>2. Rising(Tail(s))
  <2> SUFFICES ASSUME NEW i \in 1 .. Len(s) - 1, NEW j \in 1 .. Len(s) - 1, i < j
               PROVE  Tail(s)[i] < Tail(s)[j]
    BY <1>1 DEF Rising
  <2>1. Tail(s)[i] = s[i + 1] /\ Tail(s)[j] = s[j + 1]
    BY <1>1
  <2>2. i + 1 \in DOMAIN s /\ j + 1 \in DOMAIN s /\ i + 1 < j + 1
    BY <1>1
  <2> QED
    BY <2>1, <2>2 DEF Rising
<1>3. Head(s) \in Items(s)
  BY <1>1 DEF Items
<1>4. ASSUME NEW x \in Items(Tail(s))
      PROVE  x \in Items(s) \ {Head(s)}
  <2>1. PICK i \in 1 .. Len(s) - 1 : x = s[i + 1]
    BY <1>1 DEF Items
  <2>2. s[1] < s[i + 1] /\ s[1] \in Nat /\ s[i + 1] \in Nat
    BY <1>1 DEF Rising
  <2> QED
    BY <1>1, <2>1, <2>2 DEF Items
<1>5. ASSUME NEW x \in Items(s), x # Head(s)
      PROVE  x \in Items(Tail(s))
  <2>1. PICK i \in 1 .. Len(s) : x = s[i]
    BY <1>1 DEF Items
  <2>2. i - 1 \in 1 .. Len(s) - 1 /\ Tail(s)[i - 1] = s[i]
    <3>1. i # 1
      BY <1>1, <1>5, <2>1
    <3>2. i - 1 \in 1 .. Len(s) - 1
      BY <1>1, <3>1
    <3> QED
      BY <1>1, <3>2
  <2> QED
    BY <1>1, <2>1, <2>2 DEF Items
<1> QED
  BY <1>2, <1>3, <1>4, <1>5

(* A rising sequence rises on with what is greater. *)
LEMMA RisingAppend ==
    ASSUME NEW s \in Seq(Nat), NEW x \in Nat, Rising(s), \A y \in Items(s) : y < x
    PROVE  /\ Rising(Append(s, x)) /\ Append(s, x) \in Seq(Nat)
           /\ Items(Append(s, x)) = Items(s) \cup {x}
<1> DEFINE t == Append(s, x)
<1>1. /\ t \in Seq(Nat) /\ Len(s) \in Nat /\ DOMAIN s = 1 .. Len(s)
      /\ DOMAIN t = 1 .. Len(s) + 1 /\ t[Len(s) + 1] = x
      /\ \A i \in 1 .. Len(s) : t[i] = s[i]
  OBVIOUS
<1> HIDE DEF t
<1>2. \A i \in 1 .. Len(s) + 1 : i \in 1 .. Len(s) \/ i = Len(s) + 1
  BY <1>1
<1>3. \A i \in 1 .. Len(s) : s[i] < x
  BY <1>1 DEF Items
<1>4. Rising(t)
  <2> SUFFICES ASSUME NEW i \in 1 .. Len(s) + 1, NEW j \in 1 .. Len(s) + 1, i < j
               PROVE  t[i] < t[j]
    BY <1>1 DEF Rising
  <2>1. i \in 1 .. Len(s)
    BY <1>1
  <2>2. CASE j = Len(s) + 1
    BY <1>1, <1>3, <2>1, <2>2
  <2>3. CASE j \in 1 .. Len(s)
    BY <1>1, <2>1, <2>3 DEF Rising
  <2> QED
    BY <1>2, <2>2, <2>3
<1>5. Items(t) = Items(s) \cup {x}
  <2>1. \A i \in 1 .. Len(s) : i \in 1 .. Len(s) + 1
    BY <1>1
  <2>2. Len(s) + 1 \in 1 .. Len(s) + 1
    BY <1>1
  <2> QED
    BY <1>1, <2>2 DEF Items
<1> QED
  BY <1>1, <1>4, <1>5 DEF t

(* What is in the shortest sequences. *)
LEMMA ShortSequences ==
    /\ Rising(<<>>) /\ Items(<<>>) = {}
    /\ \A x : Rising(<<x>>) /\ Items(<<x>>) = {x}
BY DEF Rising, Items

(* The numbers of the consoles. *)
LEMMA Types ==
    ASSUME WindowsInv
    PROVE  /\ MaxConsoles \in Nat /\ MaxData \in Nat
           /\ made \in 0 .. MaxConsoles /\ datum \in 0 .. MaxData
           /\ {raw_win_, locked, target} \subseteq 0 .. MaxConsoles
           /\ slots \in Seq(Nat) /\ calls \in Seq(Nat)
           /\ \A k \in Consoles : shown[k] \in Seq(Nat)
<1>1. MaxConsoles \in Nat /\ MaxData \in Nat
  BY BoundsAssumption
<1>2. Consoles \cup {Plugin} = 0 .. MaxConsoles /\ 0 .. MaxConsoles \subseteq Nat
  BY <1>1 DEF Consoles, Plugin
<1>3. /\ slots \in Seq(Consoles \cup {Plugin}) /\ calls \in Seq(Consoles \cup {Plugin})
      /\ datum \in 0 .. MaxData
      /\ {raw_win_, locked, target, made} \subseteq Consoles \cup {None}
      /\ shown \in [Consoles -> Seq(1 .. MaxData)]
  BY DEF WindowsInv, TypeOK
<1>4. slots \in Seq(Nat) /\ calls \in Seq(Nat)
  <2>1. slots \in Seq(0 .. MaxConsoles) /\ calls \in Seq(0 .. MaxConsoles)
    BY <1>2, <1>3
  <2> QED
    BY <1>1, <2>1
<1>5. ASSUME NEW k \in Consoles
      PROVE  shown[k] \in Seq(Nat)
  <2>1. shown[k] \in Seq(1 .. MaxData)
    BY <1>3, <1>5
  <2> QED
    BY <1>1, <2>1
<1> QED
  BY <1>1, <1>2, <1>3, <1>4, <1>5 DEF None

(* A window is opened with the slot of the plugin, or with none. *)
LEMMA OpenWindowStep ==
    ASSUME WindowsInv, OpenWindow
    PROVE  /\ Rising(slots') /\ slots' \in Seq(Consoles \cup {Plugin})
           /\ Items(slots') = IF plugin' THEN {Plugin} ELSE {}
<1>1. CASE plugin' = TRUE
  <2>1. slots' = <<Plugin>>
    BY <1>1 DEF OpenWindow
  <2> QED
    BY <1>1, <2>1, ShortSequences
<1>2. CASE plugin' = FALSE
  <2>1. slots' = <<>>
    BY <1>2 DEF OpenWindow
  <2> QED
    BY <1>2, <2>1, ShortSequences
<1> QED
  BY <1>1, <1>2 DEF OpenWindow

(* The new console is the only one, its slot the last, and no emission knows *)
(* of it.                                                                    *)
LEMMA CheckConsoleStep ==
    ASSUME WindowsInv, CheckConsole
    PROVE  /\ made' = made + 1 /\ raw_win_' = made + 1 /\ made + 1 \in Consoles
           /\ registered' = {made + 1} /\ watching = {}
           /\ Rising(slots') /\ Items(slots') = Items(slots) \cup {made + 1}
           /\ made + 1 \notin Items(calls) /\ made + 1 \notin Items(slots)
           /\ Items(calls) \subseteq 0 .. made
           /\ shown[made + 1] = <<>>
<1>0. /\ MaxConsoles \in Nat /\ made \in 0 .. MaxConsoles /\ slots \in Seq(Nat)
      /\ OwnerInv /\ SlotsInv /\ ShownInv
  BY Types DEF WindowsInv
<1>1. made' = made + 1 /\ raw_win_' = made + 1 /\ made + 1 \in Consoles
  BY <1>0 DEF CheckConsole, Consoles
<1>2. registered' = {made + 1} /\ watching = {}
  BY <1>0, <1>1 DEF CheckConsole, OwnerInv
<1>3. \A y \in Items(slots) : y < made + 1
  BY <1>0 DEF SlotsInv
<1>4. Rising(slots') /\ Items(slots') = Items(slots) \cup {made + 1}
  <2>1. slots' = Append(slots, made + 1) /\ made + 1 \in Nat
    BY <1>0, <1>1 DEF CheckConsole
  <2> QED
    BY <1>0, <2>1, RisingAppend DEF SlotsInv
<1>5. /\ made + 1 \notin Items(calls) /\ made + 1 \notin Items(slots)
      /\ Items(calls) \subseteq 0 .. made
  BY <1>0 DEF SlotsInv
<1>6. shown[made + 1] = <<>>
  BY <1>0, <1>1 DEF ShownInv
<1> QED
  BY <1>1, <1>2, <1>4, <1>5, <1>6

(* The slot called next is behind the others no more; of a window that is    *)
(* shown it is called if the window has its console still.                   *)
LEMMA NextSlotStep ==
    ASSUME WindowsInv, NextSlot
    PROVE  \E k \in 0 .. made :
               /\ k = Head(calls)
               /\ Rising(calls')
               /\ k \in Items(calls) /\ Items(calls') = Items(calls) \ {k}
               /\ locked' \in {None, k}
               /\ locked' # None => k \in registered \cup {raw_win_}
               /\ k = raw_win_ => locked' = k
<1>0. /\ made \in 0 .. MaxConsoles /\ calls \in Seq(Nat)
      /\ {raw_win_, locked} \subseteq 0 .. MaxConsoles /\ SlotsInv
  BY Types DEF WindowsInv
<1>1. calls # <<>> /\ calls' = Tail(calls) /\ locked = None
  BY DEF NextSlot
<1>2. /\ Rising(calls') /\ Items(calls') = Items(calls) \ {Head(calls)}
      /\ Head(calls) \in Items(calls)
  BY <1>0, <1>1, RisingTail DEF SlotsInv
<1>3. Head(calls) \in 0 .. made
  BY <1>0, <1>2 DEF SlotsInv
<1>4. PICK k \in 0 .. made : k = Head(calls)
  BY <1>3
<1>5. locked' = IF k \in registered \cup {raw_win_, None} THEN k ELSE None
  BY <1>1, <1>4 DEF NextSlot, Alive
<1> QED
  BY <1>2, <1>4, <1>5

(* The datum is given to the console that the slot has found. *)
LEMMA AddDataStep ==
    ASSUME WindowsInv, EmissionInv, AddData
    PROVE  \E k \in Consoles :
               /\ k = target /\ op = "running" /\ k \notin Items(calls)
               /\ Rising(shown'[k]) /\ Items(shown'[k]) = Items(shown[k]) \cup {datum}
               /\ \A j \in Consoles \ {k} : shown'[j] = shown[j]
               /\ k <= made
               /\ datum \in 1 .. datum
<1>0. /\ MaxData \in Nat /\ datum \in 0 .. MaxData /\ target \in Consoles \cup {None}
      /\ made \in 0 .. MaxConsoles
      /\ SlotsInv /\ ShownInv /\ shown \in [Consoles -> Seq(1 .. MaxData)]
      /\ \A j \in Consoles : shown[j] \in Seq(Nat)
  BY Types DEF WindowsInv, TypeOK
<1>1. op = "running" /\ datum >= 1
  BY <1>0 DEF AddData, SlotsInv
<1>2. PICK k \in Consoles : k = target
  BY <1>0 DEF AddData
<1>3. k \notin Given \cup Items(calls)
  BY <1>1, <1>2 DEF AddData, EmissionInv
<1>4. Items(shown[k]) \subseteq 1 .. datum /\ datum \notin Items(shown[k]) /\ Rising(shown[k])
  BY <1>0, <1>3 DEF ShownInv, Given
<1>5. shown'[k] = Append(shown[k], datum) /\ \A j \in Consoles \ {k} : shown'[j] = shown[j]
  BY <1>0, <1>2 DEF AddData
<1>6. Rising(shown'[k]) /\ Items(shown'[k]) = Items(shown[k]) \cup {datum}
  <2>1. \A y \in Items(shown[k]) : y < datum
    BY <1>0, <1>4
  <2> QED
    BY <1>0, <1>4, <1>5, RisingAppend
<1>7. k <= made
  BY <1>0, <1>2 DEF SlotsInv
<1>8. k \notin Items(calls) /\ datum \in 1 .. datum
  BY <1>0, <1>1, <1>3
<1> WITNESS k \in Consoles
<1> QED
  BY <1>1, <1>2, <1>5, <1>6, <1>7, <1>8

(* To close the socket queues one handler at most. *)
LEMMA CloseTypes ==
    ASSUME WindowsInv, NEW n \in Nat, n <= aborted, Close(n)
    PROVE  /\ opened' = FALSE /\ op' \in {op, "none"} /\ op' # "pending"
           /\ aborted' \in 0 .. MaxAborted
<1>1. /\ MaxAborted \in Nat /\ aborted \in 0 .. MaxAborted
      /\ op # "none" => aborted + 1 <= MaxAborted
  BY BoundsAssumption DEF WindowsInv, TypeOK, LineInv
<1>2. CASE op = "pending"
  BY <1>1, <1>2 DEF Close
<1>3. CASE op # "pending"
  BY <1>1, <1>3 DEF Close
<1> QED
  BY <1>2, <1>3

(* So does the destruction of the members. *)
LEMMA DestroyMembersTypes ==
    ASSUME WindowsInv, DestroyMembers
    PROVE  /\ opened' = FALSE /\ op' \in {op, "none"} /\ connection' = "destroyed"
           /\ aborted' \in 0 .. MaxAborted
<1>1. /\ MaxAborted \in Nat /\ aborted \in 0 .. MaxAborted
      /\ op # "none" => aborted + 1 <= MaxAborted
  BY BoundsAssumption DEF WindowsInv, TypeOK, LineInv
<1>2. CASE op \in {"resolving", "pending"}
  BY <1>1, <1>2 DEF DestroyMembers
<1>3. CASE op \notin {"resolving", "pending"}
  BY <1>1, <1>3 DEF DestroyMembers
<1> QED
  BY <1>2, <1>3

(* And the end of a connection. *)
LEMMA ReleaseTypes ==
    ASSUME WindowsInv, Release
    PROVE  /\ opened' = FALSE /\ op' \in {op, "none"}
           /\ connection' \in {"closing", "destroyed"}
           /\ aborted' \in 0 .. MaxAborted
<1>1. aborted \in Nat /\ aborted <= aborted
  BY BoundsAssumption DEF WindowsInv, TypeOK
<1> QED
  BY <1>1, CloseTypes, DestroyMembersTypes DEF Release

(* And the end of a window. *)
LEMMA DestroyWindowTypes ==
    ASSUME WindowsInv, DestroyWindow
    PROVE  /\ window' = "destroyed" /\ raw_win_' = None /\ watching' = {}
           /\ {opened', sleeps'} \subseteq BOOLEAN /\ op' \in {op, "none"}
           /\ connection' \in {connection, "closing", "destroyed"}
           /\ aborted' \in 0 .. MaxAborted
           /\ hasty' \subseteq {"slot", "console", "outstanding", "wrapper"}
<1>1. TypeOK
  BY DEF WindowsInv
<1>2. hasty' \subseteq {"slot", "console", "outstanding", "wrapper"}
  BY <1>1 DEF DestroyWindow, SlotCause, ConsoleCause, ReleaseCause, OutstandingCause, TypeOK
<1> QED
  BY <1>1, <1>2, ReleaseTypes DEF DestroyWindow, TypeOK

(* Every step keeps the types. *)
LEMMA NextTypeOK ==
    ASSUME WindowsInv, [Next]_vars PROVE TypeOK'
<1>0. /\ TypeOK /\ OwnerInv /\ LineInv /\ SlotsInv /\ ShownInv
      /\ {MaxConsoles, MaxData, MaxAborted} \subseteq Nat
  BY BoundsAssumption DEF WindowsInv
<1>1. CASE OpenWindow
  BY <1>0, <1>1, OpenWindowStep DEF OpenWindow, TypeOK, LineInv, user, line, emission
<1>2. CASE Connect
  BY <1>0, <1>2 DEF Connect, TypeOK, LineInv, user, line, emission
<1>3. CASE Disconnect
  <2>1. aborted \in Nat /\ aborted <= aborted
    BY <1>0 DEF TypeOK
  <2>2. opened' = FALSE /\ op' \in {op, "none"} /\ aborted' \in 0 .. MaxAborted
    BY <1>3, <2>1, CloseTypes DEF Disconnect
  <2> QED
    BY <1>0, <1>3, <2>2 DEF Disconnect, TypeOK, user, emission
<1>4. CASE CheckConsole
  <2>1. made + 1 \in Consoles
    BY <1>4, Types DEF CheckConsole, Consoles
  <2>2. slots' \in Seq(Consoles \cup {Plugin})
    BY <1>0, <1>4, <2>1 DEF CheckConsole, TypeOK
  <2> QED
    BY <1>0, <1>4, <2>1, <2>2 DEF CheckConsole, TypeOK, LineInv, line, emission
<1>5. CASE UncheckConsole
  BY <1>0, <1>5 DEF UncheckConsole, TypeOK, LineInv, user, line, emission, SlotCause
<1>6. CASE Trash
  BY <1>0, <1>6, DestroyWindowTypes DEF Trash, TypeOK, emission
<1>7. CASE Send
  BY <1>0, <1>7 DEF Send, TypeOK, LineInv, user, line, emission
<1>8. CASE Leave
  BY <1>0, <1>8 DEF Leave, TypeOK, LineInv, user, line, emission
<1>9. CASE Resolved
  <2>1. op' \in {"pending", "none"} /\ opened' \in BOOLEAN
    BY <1>9 DEF Resolved
  <2>2. UNCHANGED <<gui, user, sleeps, connection, aborted, emission, watching, harm, hasty>>
    BY <1>9 DEF Resolved
  <2> QED
    BY <1>0, <2>1, <2>2 DEF TypeOK, user, emission
<1>10. CASE Receive
  BY <1>0, <1>10 DEF Receive, TypeOK, LineInv, user, line, emission
<1>11. CASE Break
  BY <1>0, <1>11 DEF Break, TypeOK, LineInv, user, line, emission
<1>12. CASE HandleRead
  BY <1>0, <1>12 DEF HandleRead, UseConnection, TypeOK, LineInv, user, line, emission
<1>13. CASE HandleAborted
  <2>1. aborted - 1 \in Nat /\ aborted - 1 <= aborted
    BY <1>0, <1>13 DEF HandleAborted, TypeOK
  <2>2. opened' = FALSE /\ op' \in {op, "none"} /\ aborted' \in 0 .. MaxAborted
    BY <1>13, <2>1, CloseTypes DEF HandleAborted
  <2>3. harm' \in {"handler", harm}
    BY <1>13 DEF HandleAborted, UseConnection
  <2>4. UNCHANGED <<gui, user, sleeps, connection, emission, watching, hasty>>
    BY <1>13 DEF HandleAborted
  <2>5. /\ opened' \in BOOLEAN /\ aborted' \in 0 .. MaxAborted
        /\ op' \in {"none", "resolving", "pending", "done", "running"}
        /\ harm' \in {"none", "send", "slot", "wrapper", "handler"}
    BY <1>0, <2>2, <2>3 DEF TypeOK
  <2> QED
    BY <1>0, <2>4, <2>5 DEF TypeOK, user, emission
<1>14. CASE NextSlot
  BY <1>0, <1>14 DEF NextSlot, TypeOK, LineInv, user, line, emission, Alive
<1>15. CASE CallSlot
  BY <1>0, <1>15 DEF CallSlot, TypeOK, LineInv, user, line, emission
<1>16. CASE AddData
  BY <1>0, <1>16 DEF AddData, TypeOK, LineInv, user, line, emission, SlotsInv
<1>17. CASE ReadAgain
  BY <1>0, <1>17 DEF ReadAgain, EmissionDone, UseConnection, TypeOK, LineInv, user,
       line, emission
<1>18. CASE Wake
  BY <1>0, <1>18, DestroyMembersTypes DEF Wake, OutstandingCause, TypeOK, user, emission
<1>19. CASE DestroyPlugins
  <2>1. hasty' \subseteq {"slot", "console", "outstanding", "wrapper"}
    BY <1>0, <1>19 DEF DestroyPlugins, ReleaseCause, OutstandingCause, TypeOK
  <2>2. /\ {opened', plugin', sleeps'} \subseteq BOOLEAN /\ op' \in {op, "none"}
        /\ connection' \in {connection, "closing", "destroyed"}
        /\ aborted' \in 0 .. MaxAborted
    BY <1>0, <1>19, ReleaseTypes DEF DestroyPlugins, TypeOK
  <2> QED
    BY <1>0, <1>19, <2>1, <2>2 DEF DestroyPlugins, After, TypeOK, emission
<1>20. CASE DestroyWindows
  <2>1. CASE window = "shown"
    BY <1>0, <1>20, <2>1, DestroyWindowTypes DEF DestroyWindows, After, TypeOK, emission
  <2>2. CASE window # "shown"
    BY <1>0, <1>20, <2>2 DEF DestroyWindows, After, TypeOK, line, emission
  <2> QED
    BY <2>1, <2>2
<1>21. CASE JoinThreads
  BY <1>0, <1>21 DEF JoinThreads, After, TypeOK, LineInv, user, line, emission
<1>22. CASE DestroyConsoles
  BY <1>0, <1>22 DEF DestroyConsoles, After, TypeOK, LineInv, user, line, emission,
       OwnerInv
<1>23. CASE UNCHANGED vars
  BY <1>0, <1>23 DEF vars, TypeOK, LineInv, user, line, emission
<1> QED
  BY <1>1, <1>2, <1>3, <1>4, <1>5, <1>6, <1>7, <1>8, <1>9, <1>10, <1>11, <1>12,
     <1>13, <1>14, <1>15, <1>16, <1>17, <1>18, <1>19, <1>20, <1>21, <1>22, <1>23
     DEF Next, User, Network, Handler, Exit

(* Every step keeps the consoles with their window. *)
LEMMA NextOwnerInv ==
    ASSUME WindowsInv, [Next]_vars PROVE OwnerInv'
<1>0. /\ TypeOK /\ OwnerInv /\ LineInv /\ SlotsInv /\ ShownInv
      /\ {MaxConsoles, MaxData, MaxAborted} \subseteq Nat
  BY BoundsAssumption DEF WindowsInv
<1>1. CASE OpenWindow
  BY <1>0, <1>1 DEF OpenWindow, OwnerInv, user, line
<1>2. CASE Connect
  BY <1>0, <1>2 DEF Connect, OwnerInv, user, line
<1>3. CASE Disconnect
  BY <1>0, <1>3 DEF Disconnect, Close, OwnerInv, user, line
<1>4. CASE CheckConsole
  BY <1>0, <1>4, CheckConsoleStep DEF CheckConsole, OwnerInv, user, line, Consoles,
       None
<1>5. CASE UncheckConsole
  BY <1>0, <1>5 DEF UncheckConsole, OwnerInv, user, line
<1>6. CASE Trash
  BY <1>0, <1>6 DEF Trash, DestroyWindow, Release, Close, DestroyMembers, OwnerInv,
       user, line
<1>7. CASE Send
  BY <1>0, <1>7 DEF Send, OwnerInv, user, line
<1>8. CASE Leave
  BY <1>0, <1>8 DEF Leave, OwnerInv, user, line
<1>9. CASE Resolved
  BY <1>0, <1>9 DEF Resolved, OwnerInv, user, line
<1>10. CASE Receive
  BY <1>0, <1>10 DEF Receive, OwnerInv, user, line
<1>11. CASE Break
  BY <1>0, <1>11 DEF Break, OwnerInv, user, line
<1>12. CASE HandleRead
  BY <1>0, <1>12 DEF HandleRead, UseConnection, OwnerInv, user, line
<1>13. CASE HandleAborted
  BY <1>0, <1>13 DEF HandleAborted, UseConnection, Close, OwnerInv, user, line
<1>14. CASE NextSlot
  BY <1>0, <1>14 DEF NextSlot, OwnerInv, user, line
<1>15. CASE CallSlot
  BY <1>0, <1>15 DEF CallSlot, OwnerInv, user, line
<1>16. CASE AddData
  BY <1>0, <1>16 DEF AddData, OwnerInv, user, line
<1>17. CASE ReadAgain
  BY <1>0, <1>17 DEF ReadAgain, EmissionDone, UseConnection, OwnerInv, user, line
<1>18. CASE Wake
  BY <1>0, <1>18 DEF Wake, DestroyMembers, OwnerInv, user, line
<1>19. CASE DestroyPlugins
  BY <1>0, <1>19 DEF DestroyPlugins, After, Release, Close, DestroyMembers, OwnerInv,
       user, line
<1>20. CASE DestroyWindows
  BY <1>0, <1>20 DEF DestroyWindows, After, DestroyWindow, Release, Close,
       DestroyMembers, OwnerInv, user, line
<1>21. CASE JoinThreads
  BY <1>0, <1>21 DEF JoinThreads, After, OwnerInv, user, line
<1>22. CASE DestroyConsoles
  BY <1>0, <1>22 DEF DestroyConsoles, After, OwnerInv, user, line
<1>23. CASE UNCHANGED vars
  BY <1>0, <1>23 DEF vars, OwnerInv, user, line
<1> QED
  BY <1>1, <1>2, <1>3, <1>4, <1>5, <1>6, <1>7, <1>8, <1>9, <1>10, <1>11, <1>12,
     <1>13, <1>14, <1>15, <1>16, <1>17, <1>18, <1>19, <1>20, <1>21, <1>22, <1>23
     DEF Next, User, Network, Handler, Exit

(* Every step keeps the operations with their connection. *)
LEMMA NextLineInv ==
    ASSUME WindowsInv, [Next]_vars PROVE LineInv'
<1>0. /\ TypeOK /\ OwnerInv /\ LineInv /\ SlotsInv /\ ShownInv
      /\ {MaxConsoles, MaxData, MaxAborted} \subseteq Nat
  BY BoundsAssumption DEF WindowsInv
<1>1. CASE OpenWindow
  BY <1>0, <1>1 DEF OpenWindow, TypeOK, OwnerInv, LineInv, user, line
<1>2. CASE Connect
  BY <1>0, <1>2 DEF Connect, TypeOK, OwnerInv, LineInv, user, line
<1>3. CASE Disconnect
  BY <1>0, <1>3 DEF Disconnect, Close, TypeOK, OwnerInv, LineInv, user, line
<1>4. CASE CheckConsole
  BY <1>0, <1>4 DEF CheckConsole, TypeOK, OwnerInv, LineInv, user, line
<1>5. CASE UncheckConsole
  BY <1>0, <1>5 DEF UncheckConsole, TypeOK, OwnerInv, LineInv, user, line
<1>6. CASE Trash
  BY <1>0, <1>6 DEF Trash, DestroyWindow, Release, Close, DestroyMembers, TypeOK,
       OwnerInv, LineInv, user, line
<1>7. CASE Send
  BY <1>0, <1>7 DEF Send, TypeOK, OwnerInv, LineInv, user, line
<1>8. CASE Leave
  BY <1>0, <1>8 DEF Leave, TypeOK, OwnerInv, LineInv, user, line
<1>9. CASE Resolved
  BY <1>0, <1>9 DEF Resolved, TypeOK, OwnerInv, LineInv, user, line
<1>10. CASE Receive
  BY <1>0, <1>10 DEF Receive, TypeOK, OwnerInv, LineInv, user, line
<1>11. CASE Break
  BY <1>0, <1>11 DEF Break, TypeOK, OwnerInv, LineInv, user, line
<1>12. CASE HandleRead
  BY <1>0, <1>12 DEF HandleRead, UseConnection, TypeOK, OwnerInv, LineInv, user, line
<1>13. CASE HandleAborted
  BY <1>0, <1>13 DEF HandleAborted, UseConnection, Close, TypeOK, OwnerInv, LineInv,
       user, line
<1>14. CASE NextSlot
  BY <1>0, <1>14 DEF NextSlot, TypeOK, OwnerInv, LineInv, user, line
<1>15. CASE CallSlot
  BY <1>0, <1>15 DEF CallSlot, TypeOK, OwnerInv, LineInv, user, line
<1>16. CASE AddData
  BY <1>0, <1>16 DEF AddData, TypeOK, OwnerInv, LineInv, user, line
<1>17. CASE ReadAgain
  BY <1>0, <1>17 DEF ReadAgain, EmissionDone, UseConnection, TypeOK, OwnerInv,
       LineInv, user, line
<1>18. CASE Wake
  BY <1>0, <1>18 DEF Wake, DestroyMembers, TypeOK, OwnerInv, LineInv, user, line
<1>19. CASE DestroyPlugins
  BY <1>0, <1>19 DEF DestroyPlugins, After, Release, Close, DestroyMembers, TypeOK,
       OwnerInv, LineInv, user, line
<1>20. CASE DestroyWindows
  BY <1>0, <1>20 DEF DestroyWindows, After, DestroyWindow, Release, Close,
       DestroyMembers, TypeOK, OwnerInv, LineInv, user, line
<1>21. CASE JoinThreads
  BY <1>0, <1>21 DEF JoinThreads, After, TypeOK, OwnerInv, LineInv, user, line
<1>22. CASE DestroyConsoles
  BY <1>0, <1>22 DEF DestroyConsoles, After, TypeOK, OwnerInv, LineInv, user, line
<1>23. CASE UNCHANGED vars
  BY <1>0, <1>23 DEF vars, TypeOK, OwnerInv, LineInv, user, line
<1> QED
  BY <1>1, <1>2, <1>3, <1>4, <1>5, <1>6, <1>7, <1>8, <1>9, <1>10, <1>11, <1>12,
     <1>13, <1>14, <1>15, <1>16, <1>17, <1>18, <1>19, <1>20, <1>21, <1>22, <1>23
     DEF Next, User, Network, Handler, Exit

(* Every step keeps the slots in their order. *)
LEMMA NextSlotsInv ==
    ASSUME WindowsInv, [Next]_vars PROVE SlotsInv'
<1>0. /\ TypeOK /\ OwnerInv /\ LineInv /\ SlotsInv /\ ShownInv
      /\ {MaxConsoles, MaxData, MaxAborted} \subseteq Nat
  BY BoundsAssumption DEF WindowsInv
<1>1. CASE OpenWindow
  <2>1. UNCHANGED <<calls, locked, target, op, datum, made>>
    BY <1>1 DEF OpenWindow, emission
  <2>2. Rising(slots') /\ Items(slots') \subseteq {Plugin}
    BY <1>1, OpenWindowStep
  <2>3. Items(slots') \subseteq 0 .. made'
    BY <1>0, <2>1, <2>2, Types DEF Plugin, TypeOK
  <2> QED
    BY <1>0, <2>1, <2>2, <2>3 DEF SlotsInv
<1>2. CASE Connect
  BY <1>0, <1>2 DEF Connect, SlotsInv, user, line, emission
<1>3. CASE Disconnect
  BY <1>0, <1>3 DEF Disconnect, Close, SlotsInv, user, line, emission
<1>4. CASE CheckConsole
  <2>1. UNCHANGED <<calls, locked, target, op, datum>>
    BY <1>4 DEF CheckConsole, line, emission
  <2>2. /\ made' = made + 1 /\ made \in 0 .. MaxConsoles
        /\ Rising(slots') /\ Items(slots') = Items(slots) \cup {made + 1}
    BY <1>4, Types, CheckConsoleStep
  <2>3. Items(slots') \subseteq 0 .. made' /\ Items(calls) \subseteq 0 .. made'
    BY <1>0, <2>2 DEF SlotsInv
  <2>4. target <= made'
    BY <1>0, <2>2, Types DEF SlotsInv
  <2> QED
    BY <1>0, <2>1, <2>2, <2>4 DEF SlotsInv
<1>5. CASE UncheckConsole
  BY <1>0, <1>5 DEF UncheckConsole, SlotsInv, user, line, emission
<1>6. CASE Trash
  BY <1>0, <1>6 DEF Trash, DestroyWindow, Release, Close, DestroyMembers, SlotsInv,
       user, line, emission
<1>7. CASE Send
  BY <1>0, <1>7 DEF Send, SlotsInv, user, line, emission
<1>8. CASE Leave
  BY <1>0, <1>8 DEF Leave, SlotsInv, user, line, emission
<1>9. CASE Resolved
  BY <1>0, <1>9 DEF Resolved, SlotsInv, user, line, emission
<1>10. CASE Receive
  BY <1>0, <1>10 DEF Receive, SlotsInv, user, line, emission, TypeOK
<1>11. CASE Break
  BY <1>0, <1>11 DEF Break, SlotsInv, user, line, emission
<1>12. CASE HandleRead
  BY <1>0, <1>12 DEF HandleRead, UseConnection, SlotsInv, user, line, emission
<1>13. CASE HandleAborted
  BY <1>0, <1>13 DEF HandleAborted, UseConnection, Close, SlotsInv, user, line,
       emission
<1>14. CASE NextSlot
  BY <1>0, <1>14, NextSlotStep DEF NextSlot, SlotsInv, user, line, emission
<1>15. CASE CallSlot
  BY <1>0, <1>15 DEF CallSlot, SlotsInv, user, line, emission, OwnerInv
<1>16. CASE AddData
  <2>1. /\ UNCHANGED <<slots, calls, made, op, datum>>
        /\ locked' = None /\ target' = None /\ target # None
    BY <1>16 DEF AddData, user, line, emission
  <2>2. made \in Nat /\ op = "running"
    BY <1>0, <2>1 DEF TypeOK, SlotsInv, Consoles, None
  <2> QED
    BY <1>0, <2>1, <2>2 DEF SlotsInv, None
<1>17. CASE ReadAgain
  BY <1>0, <1>17 DEF ReadAgain, EmissionDone, UseConnection, SlotsInv, user, line,
       emission
<1>18. CASE Wake
  BY <1>0, <1>18 DEF Wake, DestroyMembers, SlotsInv, user, line, emission
<1>19. CASE DestroyPlugins
  BY <1>0, <1>19 DEF DestroyPlugins, After, Release, Close, DestroyMembers, SlotsInv,
       user, line, emission
<1>20. CASE DestroyWindows
  BY <1>0, <1>20 DEF DestroyWindows, After, DestroyWindow, Release, Close,
       DestroyMembers, SlotsInv, user, line, emission
<1>21. CASE JoinThreads
  BY <1>0, <1>21 DEF JoinThreads, After, SlotsInv, user, line, emission
<1>22. CASE DestroyConsoles
  BY <1>0, <1>22 DEF DestroyConsoles, After, SlotsInv, user, line, emission
<1>23. CASE UNCHANGED vars
  BY <1>0, <1>23 DEF vars, SlotsInv, user, line, emission
<1> QED
  BY <1>1, <1>2, <1>3, <1>4, <1>5, <1>6, <1>7, <1>8, <1>9, <1>10, <1>11, <1>12,
     <1>13, <1>14, <1>15, <1>16, <1>17, <1>18, <1>19, <1>20, <1>21, <1>22, <1>23
     DEF Next, User, Network, Handler, Exit

(* Every step keeps what a console shows in its order. *)
LEMMA NextShownInv ==
    ASSUME WindowsInv, EmissionInv, [Next]_vars PROVE ShownInv'
<1>0. /\ TypeOK /\ OwnerInv /\ LineInv /\ SlotsInv /\ ShownInv
      /\ {MaxConsoles, MaxData, MaxAborted} \subseteq Nat
  BY BoundsAssumption DEF WindowsInv
<1>1. CASE OpenWindow
  BY <1>0, <1>1 DEF OpenWindow, ShownInv, user, line, emission
<1>2. CASE Connect
  BY <1>0, <1>2 DEF Connect, ShownInv, user, line, emission
<1>3. CASE Disconnect
  BY <1>0, <1>3 DEF Disconnect, Close, ShownInv, user, line, emission
<1>4. CASE CheckConsole
  BY <1>0, <1>4, Types DEF CheckConsole, ShownInv, user, line, emission, Consoles,
       None
<1>5. CASE UncheckConsole
  BY <1>0, <1>5 DEF UncheckConsole, ShownInv, user, line, emission
<1>6. CASE Trash
  BY <1>0, <1>6 DEF Trash, DestroyWindow, Release, Close, DestroyMembers, ShownInv,
       user, line, emission
<1>7. CASE Send
  BY <1>0, <1>7 DEF Send, ShownInv, user, line, emission
<1>8. CASE Leave
  BY <1>0, <1>8 DEF Leave, ShownInv, user, line, emission
<1>9. CASE Resolved
  BY <1>0, <1>9 DEF Resolved, ShownInv, user, line, emission
<1>10. CASE Receive
  BY <1>0, <1>10 DEF Receive, ShownInv, user, line, emission, TypeOK
<1>11. CASE Break
  BY <1>0, <1>11 DEF Break, ShownInv, user, line, emission
<1>12. CASE HandleRead
  BY <1>0, <1>12 DEF HandleRead, UseConnection, ShownInv, user, line, emission
<1>13. CASE HandleAborted
  BY <1>0, <1>13 DEF HandleAborted, UseConnection, Close, ShownInv, user, line,
       emission
<1>14. CASE NextSlot
  BY <1>0, <1>14 DEF NextSlot, ShownInv, user, line, emission
<1>15. CASE CallSlot
  BY <1>0, <1>15 DEF CallSlot, ShownInv, user, line, emission
<1>16. CASE AddData
  <2>1. PICK k \in Consoles :
            /\ op = "running"
            /\ Rising(shown'[k]) /\ Items(shown'[k]) = Items(shown[k]) \cup {datum}
            /\ \A j \in Consoles \ {k} : shown'[j] = shown[j]
            /\ k <= made /\ datum \in 1 .. datum
    BY <1>16, AddDataStep
  <2>2. UNCHANGED <<op, made, datum>>
    BY <1>16 DEF AddData, user, line
  <2>3. ~(k > made) /\ Items(shown'[k]) \subseteq 1 .. datum
    BY <1>0, <2>1, Types DEF ShownInv, Consoles
  <2>4. ASSUME NEW j \in Consoles
        PROVE  /\ Rising(shown'[j]) /\ Items(shown'[j]) \subseteq 1 .. datum
               /\ j > made => shown'[j] = <<>>
    <3>1. CASE j = k
      BY <2>1, <2>3, <3>1
    <3>2. CASE j # k
      BY <1>0, <2>1, <3>2 DEF ShownInv
    <3> QED
      BY <3>1, <3>2
  <2> QED
    BY <2>1, <2>2, <2>4 DEF ShownInv
<1>17. CASE ReadAgain
  BY <1>0, <1>17 DEF ReadAgain, EmissionDone, UseConnection, ShownInv, user, line,
       emission
<1>18. CASE Wake
  BY <1>0, <1>18 DEF Wake, DestroyMembers, ShownInv, user, line, emission
<1>19. CASE DestroyPlugins
  BY <1>0, <1>19 DEF DestroyPlugins, After, Release, Close, DestroyMembers, ShownInv,
       user, line, emission
<1>20. CASE DestroyWindows
  BY <1>0, <1>20 DEF DestroyWindows, After, DestroyWindow, Release, Close,
       DestroyMembers, ShownInv, user, line, emission
<1>21. CASE JoinThreads
  BY <1>0, <1>21 DEF JoinThreads, After, ShownInv, user, line, emission
<1>22. CASE DestroyConsoles
  BY <1>0, <1>22 DEF DestroyConsoles, After, ShownInv, user, line, emission
<1>23. CASE UNCHANGED vars
  BY <1>0, <1>23 DEF vars, ShownInv, user, line, emission
<1> QED
  BY <1>1, <1>2, <1>3, <1>4, <1>5, <1>6, <1>7, <1>8, <1>9, <1>10, <1>11, <1>12,
     <1>13, <1>14, <1>15, <1>16, <1>17, <1>18, <1>19, <1>20, <1>21, <1>22, <1>23
     DEF Next, User, Network, Handler, Exit

(* Every step keeps an emission going round once. *)
LEMMA NextEmissionInv ==
    ASSUME WindowsInv, EmissionInv, [Next]_vars PROVE EmissionInv'
<1>0. /\ TypeOK /\ OwnerInv /\ LineInv /\ SlotsInv /\ ShownInv
      /\ {MaxConsoles, MaxData, MaxAborted} \subseteq Nat
  BY BoundsAssumption DEF WindowsInv
<1>1. CASE OpenWindow
  BY <1>0, <1>1 DEF OpenWindow, EmissionInv, Given, user, line, emission, OwnerInv
<1>2. CASE Connect
  BY <1>0, <1>2 DEF Connect, EmissionInv, Given, user, line, emission
<1>3. CASE Disconnect
  BY <1>0, <1>3 DEF Disconnect, Close, EmissionInv, Given, user, line, emission
<1>4. CASE CheckConsole
  BY <1>0, <1>4, CheckConsoleStep, ShortSequences DEF CheckConsole, EmissionInv,
       Given, user, line, emission
<1>5. CASE UncheckConsole
  BY <1>0, <1>5 DEF UncheckConsole, EmissionInv, Given, user, line, emission
<1>6. CASE Trash
  BY <1>0, <1>6 DEF Trash, DestroyWindow, Release, Close, DestroyMembers, EmissionInv,
       Given, user, line, emission
<1>7. CASE Send
  BY <1>0, <1>7 DEF Send, EmissionInv, Given, user, line, emission
<1>8. CASE Leave
  BY <1>0, <1>8 DEF Leave, EmissionInv, Given, user, line, emission
<1>9. CASE Resolved
  BY <1>0, <1>9 DEF Resolved, EmissionInv, Given, user, line, emission
<1>10. CASE Receive
  BY <1>0, <1>10 DEF Receive, EmissionInv, Given, user, line, emission
<1>11. CASE Break
  BY <1>0, <1>11 DEF Break, EmissionInv, Given, user, line, emission
<1>12. CASE HandleRead
  BY <1>0, <1>12 DEF HandleRead, UseConnection, EmissionInv, Given, user, line,
       emission, OwnerInv, SlotsInv, ShownInv
<1>13. CASE HandleAborted
  BY <1>0, <1>13 DEF HandleAborted, UseConnection, Close, EmissionInv, Given, user,
       line, emission
<1>14. CASE NextSlot
  BY <1>0, <1>14, NextSlotStep DEF NextSlot, EmissionInv, Given, user, line, emission,
       OwnerInv, SlotsInv
<1>15. CASE CallSlot
  BY <1>0, <1>15 DEF CallSlot, EmissionInv, Given, user, line, emission, OwnerInv
<1>16. CASE AddData
  BY <1>0, <1>16, AddDataStep DEF AddData, EmissionInv, Given, user, line, emission
<1>17. CASE ReadAgain
  BY <1>0, <1>17 DEF ReadAgain, EmissionDone, UseConnection, EmissionInv, Given, user,
       line, emission
<1>18. CASE Wake
  BY <1>0, <1>18 DEF Wake, DestroyMembers, EmissionInv, Given, user, line, emission
<1>19. CASE DestroyPlugins
  BY <1>0, <1>19 DEF DestroyPlugins, After, Release, Close, DestroyMembers,
       EmissionInv, Given, user, line, emission
<1>20. CASE DestroyWindows
  BY <1>0, <1>20 DEF DestroyWindows, After, DestroyWindow, Release, Close,
       DestroyMembers, EmissionInv, Given, user, line, emission
<1>21. CASE JoinThreads
  BY <1>0, <1>21 DEF JoinThreads, After, EmissionInv, Given, user, line, emission
<1>22. CASE DestroyConsoles
  BY <1>0, <1>22 DEF DestroyConsoles, After, EmissionInv, Given, user, line, emission
<1>23. CASE UNCHANGED vars
  BY <1>0, <1>23 DEF vars, EmissionInv, Given, user, line, emission
<1> QED
  BY <1>1, <1>2, <1>3, <1>4, <1>5, <1>6, <1>7, <1>8, <1>9, <1>10, <1>11, <1>12,
     <1>13, <1>14, <1>15, <1>16, <1>17, <1>18, <1>19, <1>20, <1>21, <1>22, <1>23
     DEF Next, User, Network, Handler, Exit

(* The end of a window is the cause of what it may lead to. *)
LEMMA DestroyWindowCauses ==
    ASSUME WindowsInv, CauseInv, window = "shown", DestroyWindow,
           UNCHANGED <<plugin, registered, slots, made, emission, harm>>,
           gui' \in {gui, "connection_manager_"}
    PROVE  CauseInv'
<1>0. /\ TypeOK /\ OwnerInv /\ LineInv
  BY DEF WindowsInv
<1>1. hasty \subseteq hasty' /\ SlotCause \cup ConsoleCause \subseteq hasty'
  BY DEF DestroyWindow
<1>2. HarmHasItsCause'
  BY <1>1 DEF CauseInv, HarmHasItsCause
<1>3. op' \in {op, "none"}
  BY DEF DestroyWindow, Release, Close, DestroyMembers
<1>4. connection' = "destroyed" /\ (op' # "none" \/ aborted' > 0) => "outstanding" \in hasty'
  <2>1. CASE UNCHANGED <<connection, op, aborted>>
    BY <1>1, <2>1 DEF CauseInv
  <2>2. CASE ~plugin /\ sleeps
    BY <2>2 DEF DestroyWindow, Release
  <2>3. CASE ~plugin /\ ~sleeps
    <3>1. DestroyMembers /\ OutstandingCause \subseteq hasty'
      BY <2>3 DEF DestroyWindow, Release, ReleaseCause
    <3>2. op = "none" /\ ~(aborted > 0) => op' = "none" /\ ~(aborted' > 0)
      BY <3>1 DEF DestroyMembers
    <3> QED
      BY <3>1, <3>2 DEF OutstandingCause
  <2> QED
    BY <2>1, <2>2, <2>3 DEF DestroyWindow
<1>5. window' = "destroyed" /\ registered' # {} => "console" \in hasty'
  BY <1>0, <1>1 DEF CauseInv, OwnerInv, ConsoleCause, DestroyWindow
<1>6. hasty' \cap {"console", "slot"} = {} =>
          /\ locked' # None => raw_win_' = locked'
          /\ target' # None => target' = locked'
  BY <1>1 DEF CauseInv, SlotCause, DestroyWindow, emission
<1>7. /\ gui' = "run" /\ Plugin \in Items(slots)' => plugin'
      /\ Plugin \in Items(slots)' /\ op' # "none" => plugin' \/ "wrapper" \in hasty'
      /\ Plugin \in Items(calls)' => plugin' \/ "wrapper" \in hasty'
  BY <1>1, <1>3 DEF CauseInv, Items, emission
<1> QED
  BY <1>2, <1>4, <1>5, <1>6, <1>7 DEF CauseInv

(* Every step that may use what is gone has been provoked. *)
LEMMA NextCauseInv ==
    ASSUME WindowsInv, CauseInv, [Next]_vars PROVE CauseInv'
<1>0. /\ TypeOK /\ OwnerInv /\ LineInv /\ SlotsInv /\ ShownInv
      /\ {MaxConsoles, MaxData, MaxAborted} \subseteq Nat
  BY BoundsAssumption DEF WindowsInv
<1>1. CASE OpenWindow
  BY <1>0, <1>1, ShortSequences DEF OpenWindow, CauseInv, HarmHasItsCause, user, line,
       emission, OwnerInv, SlotsInv
<1>2. CASE Connect
  BY <1>0, <1>2 DEF Connect, CauseInv, HarmHasItsCause, user, line, emission, OwnerInv
<1>3. CASE Disconnect
  BY <1>0, <1>3 DEF Disconnect, Close, CauseInv, HarmHasItsCause, user, line,
       emission, OwnerInv
<1>4. CASE CheckConsole
  BY <1>0, <1>4, Types, CheckConsoleStep DEF CheckConsole, CauseInv, HarmHasItsCause,
       user, line, emission, Plugin
<1>5. CASE UncheckConsole
  BY <1>0, <1>5 DEF UncheckConsole, CauseInv, HarmHasItsCause, user, line, emission,
       SlotCause, SlotsInv, OwnerInv
<1>6. CASE Trash
  BY <1>6, DestroyWindowCauses DEF Trash
<1>7. CASE Send
  BY <1>0, <1>7 DEF Send, CauseInv, HarmHasItsCause, user, line, emission, TypeOK,
       OwnerInv
<1>8. CASE Leave
  BY <1>0, <1>8 DEF Leave, CauseInv, HarmHasItsCause, user, line, emission
<1>9. CASE Resolved
  BY <1>0, <1>9 DEF Resolved, CauseInv, HarmHasItsCause, user, line, emission
<1>10. CASE Receive
  BY <1>0, <1>10 DEF Receive, CauseInv, HarmHasItsCause, user, line, emission
<1>11. CASE Break
  BY <1>0, <1>11 DEF Break, CauseInv, HarmHasItsCause, user, line, emission
<1>12. CASE HandleRead
  BY <1>0, <1>12 DEF HandleRead, UseConnection, CauseInv, HarmHasItsCause, user, line,
       emission, LineInv
<1>13. CASE HandleAborted
  BY <1>0, <1>13 DEF HandleAborted, UseConnection, Close, CauseInv, HarmHasItsCause,
       user, line, emission, TypeOK
<1>14. CASE NextSlot
  BY <1>0, <1>14, NextSlotStep DEF NextSlot, CauseInv, HarmHasItsCause, user, line,
       emission, TypeOK, OwnerInv
<1>15. CASE CallSlot
  BY <1>0, <1>15 DEF CallSlot, CauseInv, HarmHasItsCause, user, line, emission,
       OwnerInv
<1>16. CASE AddData
  BY <1>0, <1>16 DEF AddData, CauseInv, HarmHasItsCause, user, line, emission, Alive
<1>17. CASE ReadAgain
  BY <1>0, <1>17 DEF ReadAgain, EmissionDone, UseConnection, CauseInv,
       HarmHasItsCause, user, line, emission
<1>18. CASE Wake
  BY <1>0, <1>18 DEF Wake, DestroyMembers, CauseInv, HarmHasItsCause, user, line,
       emission, LineInv, SlotsInv, OutstandingCause
<1>19. CASE DestroyPlugins
  BY <1>0, <1>19, ShortSequences DEF DestroyPlugins, After, Release, Close,
       DestroyMembers, CauseInv, HarmHasItsCause, user, line, emission, SlotsInv,
       LineInv, OwnerInv, SlotCause, ConsoleCause, ReleaseCause, OutstandingCause
<1>20. CASE DestroyWindows
  <2>1. CASE window = "shown"
    BY <1>20, <2>1, DestroyWindowCauses DEF DestroyWindows, After
  <2>2. CASE window # "shown"
    BY <1>20, <2>2 DEF DestroyWindows, After, CauseInv, HarmHasItsCause, line, emission
  <2> QED
    BY <2>1, <2>2
<1>21. CASE JoinThreads
  BY <1>0, <1>21 DEF JoinThreads, After, CauseInv, HarmHasItsCause, user, line,
       emission
<1>22. CASE DestroyConsoles
  BY <1>0, <1>22 DEF DestroyConsoles, After, CauseInv, HarmHasItsCause, user, line,
       emission
<1>23. CASE UNCHANGED vars
  BY <1>0, <1>23 DEF vars, CauseInv, HarmHasItsCause, user, line, emission
<1> QED
  BY <1>1, <1>2, <1>3, <1>4, <1>5, <1>6, <1>7, <1>8, <1>9, <1>10, <1>11, <1>12,
     <1>13, <1>14, <1>15, <1>16, <1>17, <1>18, <1>19, <1>20, <1>21, <1>22, <1>23
     DEF Next, User, Network, Handler, Exit

-------------------------------------------------------------------------------
(* At the start there is no window, no console and nothing received. *)
LEMMA InitInv == Init => WindowsInv /\ EmissionInv /\ CauseInv
<1> SUFFICES ASSUME Init PROVE WindowsInv /\ EmissionInv /\ CauseInv
  OBVIOUS
<1>0. /\ {MaxConsoles, MaxData, MaxAborted} \subseteq Nat
      /\ gui = "run" /\ window = "none" /\ connection = "none"
      /\ plugin = FALSE /\ sleeps = FALSE /\ opened = FALSE
      /\ harm = "none" /\ hasty = {} /\ aborted = 0
      /\ op = "none" /\ raw_win_ = None /\ locked = None /\ target = None
      /\ registered = {} /\ watching = {} /\ slots = <<>> /\ calls = <<>>
      /\ made = 0 /\ datum = 0 /\ shown = [k \in Consoles |-> <<>>]
  BY BoundsAssumption DEF Init
<1>1. TypeOK
  <2>1. slots \in Seq(Consoles \cup {Plugin}) /\ calls \in Seq(Consoles \cup {Plugin})
    BY <1>0
  <2>2. shown \in [Consoles -> Seq(1 .. MaxData)]
    BY <1>0
  <2>3. {plugin, sleeps, opened} \subseteq BOOLEAN
    BY <1>0
  <2>4. datum \in 0 .. MaxData
    BY <1>0
  <2>5. {raw_win_, locked, target, made} \subseteq Consoles \cup {None}
    BY <1>0 DEF None
  <2> QED
    BY <1>0, <2>3, <2>5 DEF TypeOK
<1>2. OwnerInv /\ LineInv
  BY <1>0 DEF OwnerInv, LineInv, None
<1>3. SlotsInv
  BY <1>0, ShortSequences DEF SlotsInv, None
<1>4. ShownInv
  BY <1>0, ShortSequences DEF ShownInv
<1>5. EmissionInv
  BY <1>0 DEF EmissionInv
<1>6. CauseInv
  BY <1>0, ShortSequences DEF CauseInv, HarmHasItsCause, None
<1> QED
  BY <1>1, <1>2, <1>3, <1>4, <1>5, <1>6 DEF WindowsInv

(* Every step keeps the whole. *)
LEMMA NextInv ==
    ASSUME WindowsInv, EmissionInv, CauseInv, [Next]_vars
    PROVE  WindowsInv' /\ EmissionInv' /\ CauseInv'
BY NextTypeOK, NextOwnerInv, NextLineInv, NextSlotsInv, NextShownInv, NextEmissionInv,
   NextCauseInv DEF WindowsInv

(* So it holds in every state. *)
LEMMA Invariant == Spec => [](WindowsInv /\ EmissionInv /\ CauseInv)
BY InitInv, NextInv, PTL DEF Spec

(* The windows, the consoles, the slots and what is shown are always of      *)
(* their types; the console of the window is registered with the             *)
(* WindowManager.                                                            *)
THEOREM TypeCorrect == Spec => []TypeOK
<1>1. WindowsInv => TypeOK
  BY DEF WindowsInv
<1> QED
  BY <1>1, Invariant, PTL

(* A console shows what is received in order and never twice, and the one    *)
(* that was open all the time is given the datum, for any number of consoles *)
(* checked and unchecked and of data received (the box "Console",            *)
(* Receiver::onReceive).                                                     *)
THEOREM GivenOnce == Spec => []ShownOnce
<1>1. WindowsInv /\ EmissionInv => ShownOnce
  <2> SUFFICES ASSUME WindowsInv, EmissionInv PROVE ShownOnce
    OBVIOUS
  <2>1. \A k \in Consoles : \A i, j \in DOMAIN shown[k] :
            i < j => shown[k][i] < shown[k][j]
    BY DEF WindowsInv, ShownInv, Rising
  <2>2. ASSUME EmissionDone, NEW k \in watching
        PROVE  \E i \in DOMAIN shown[k] : shown[k][i] = datum
    <3>1. k \in Given
      BY <2>2, ShortSequences DEF EmissionDone, EmissionInv
    <3> QED
      BY <3>1 DEF Given, Items
  <2> QED
    BY <2>1, <2>2 DEF ShownOnce
<1> QED
  BY <1>1, Invariant, PTL

(* Whatever the user, the network and the threads do, at the end of main()   *)
(* too: a console, a slot, a wrapper or a handler uses what is gone only     *)
(* after the hasty destruction that is its cause.                            *)
THEOREM HarmIsCaused == Spec => []HarmHasItsCause
<1>1. CauseInv => HarmHasItsCause
  BY DEF CauseInv
<1> QED
  BY <1>1, Invariant, PTL

===============================================================================
