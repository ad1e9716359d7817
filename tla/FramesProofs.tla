------------------------------ MODULE FramesProofs ------------------------------
(***************************************************************************)
(* Proofs about Frames, for any number of images of the swap chain.        *)
(***************************************************************************)
EXTENDS Frames, FiniteSetTheorems, SequenceTheorems, TLAPS

(* The queue of the GPU, and the draws in it. *)
Op(i) == queue[i].op
Draws == {i \in DOMAIN queue : Op(i) = "draw"}

(* The swap chain, its fences and semaphores are as they were made.          *)
AsMade ==
    /\ fence = Images
    /\ acquired = [pair \in Images |-> 0]
    /\ rendered = [pair \in Images |-> 0]
    /\ owed = {}

(* Set-up, the frame between acquire and present, and the main loop. *)
Preparing == {"SDL", "SetupVulkan", "surface", "SetupVulkanWindow", "fonts",
              "fontsIdle", "unready"}
InFrame == {"acquire", "wait", "record", "present"}
Looping == {"poll", "resize", "draw"} \cup InFrame

(* Frames are made of the swap chain there is. *)
Live == pc \in Looping /\ ~rebuild

(* Before the loop nothing is used; the fonts are uploaded alone.            *)
SetupInv ==
    /\ pc \in Preparing => AsMade /\ rebuild = FALSE
    /\ pc \in Preparing \ {"fontsIdle"} => queue = <<>>
    /\ pc = "fontsIdle" => queue = <<>> \/ (Len(queue) = 1 /\ Op(1) = "upload")
    /\ \A i \in DOMAIN queue :
           IF Op(i) = "upload"
           THEN Len(queue) = 1 /\ pc \in {"fontsIdle", "aborted"}
           ELSE queue[i].pair \in Images

(* No frame is begun with a swap chain that is to be made anew.              *)
RebuildInv ==
    /\ pc \in InFrame => rebuild = FALSE
    /\ pc = "draw" /\ rebuild => window = "empty"

(* The command buffer of an image is in the queue once at most, its fence    *)
(* not signalled; and not at all when it is recorded.                        *)
FenceInv ==
    /\ \A i, j \in Draws : queue[i].image = queue[j].image => i = j
    /\ \A i \in Draws : queue[i].image \notin fence
    /\ pc = "record" => FrameIndex \notin fence /\ ~InQueue("draw", FrameIndex)
    /\ pc = "gone" => queue = <<>>

(* An image is presented behind its draw, with the same pair. *)
ShowInv ==
    \A i \in Draws :
        i + 1 \in DOMAIN queue =>
            queue[i + 1] = Command("show", queue[i].image, queue[i].pair)

(* How many frames ago a pair was taken, the last time before the next one,  *)
(* which takes the pair of the index.                                        *)
Ago(index, pair) == index - pair + (IF pair < index THEN 0 ELSE ImageCount)

(* Where the queue ends but for a draw that is about to be presented.        *)
End == Len(queue) - (IF pc = "present" THEN 1 ELSE 0)

(* A position of the queue whose command is where its pair has it.           *)
InTurn(i) ==
    \/ Op(i) = "draw" /\ End - i = 2 * Ago(SemaphoreIndex, queue[i].pair) - 1
    \/ Op(i) = "show" /\ \E n \in 0 .. Len(queue) : End - i = 2 * n

(* Draws and presents alternate, and the pairs are taken in turn. *)
TurnInv ==
    Live =>
        /\ \A i \in 1 .. End : InTurn(i)
        /\ pc = "present" =>
               /\ queue # <<>> =>
                      queue[Len(queue)] = Command("draw", FrameIndex, SemaphoreIndex)
               /\ \A i \in Draws \cap 1 .. End : queue[i].pair # SemaphoreIndex

(* RenderCompleteSemaphore is signalled between a draw and its present only. *)
RenderedInv ==
    \A pair \in Images :
        /\ rendered[pair] \in {0, 1}
        /\ rendered[pair] = 1 =>
               IF queue = <<>>
               THEN Live => pc = "present" /\ pair = SemaphoreIndex
               ELSE Op(1) = "show" /\ queue[1].pair = pair

(* The display cannot release an image before the next draw has taken the    *)
(* signal of the pair: the image is yet to be shown, or is shown until the   *)
(* present behind that draw.                                                 *)
FirstDraw(pair) ==
    \/ /\ 1 \in DOMAIN queue
       /\ Op(1) = "draw" /\ queue[1].pair = pair
    \/ /\ 2 \in DOMAIN queue /\ Op(1) = "show"
       /\ Op(2) = "draw" /\ queue[2].pair = pair

Held(o) ==
    /\ FirstDraw(o.pair)
    /\ \/ o.toShow /\ InQueue("show", o.image)
       \/ o.image = onScreen /\ Op(1) = "draw"

(* A pair has been taken again while its last signal is not waited for yet.  *)
Again(pair) == pair = SemaphoreIndex /\ (Live => pc = "wait")

(* Every signal of ImageAcquiredSemaphore, given or owed, has its draw: one  *)
(* that is queued, or the one of the frame that is made.  There are two of a *)
(* pair only when it is taken again, and then the later one is held back.    *)
AcquiredInv ==
    /\ \A pair \in Images : acquired[pair] \in {0, 1}
    /\ \A o \in owed : acquired[o.pair] = 1 => Held(o) /\ Again(o.pair)
    /\ \A o1, o2 \in owed :
           o1.pair = o2.pair /\ o1 # o2 =>
               acquired[o1.pair] = 0 /\ (Held(o1) \/ Held(o2)) /\ Again(o1.pair)
    /\ \A o1, o2, o3 \in owed :
           o1.pair = o2.pair /\ o2.pair = o3.pair => o1 = o2 \/ o1 = o3 \/ o2 = o3
    /\ Live =>
           \A pair \in Images :
               acquired[pair] = 1 \/ (\E o \in owed : o.pair = pair) =>
                   \/ \E i \in Draws : queue[i].pair = pair
                   \/ pair = SemaphoreIndex /\ pc \in {"wait", "record"}

(* The inductive invariant for the command buffers and the fences ... *)
FramesInv == TypeOK /\ SetupInv /\ RebuildInv /\ FenceInv

(* ... and the one for the semaphores. *)
SemaphoreInv == FramesInv /\ ShowInv /\ TurnInv /\ RenderedInv /\ AcquiredInv

-------------------------------------------------------------------------------
(* What the queue may hold. *)
Commands == [op : {"upload", "draw", "show"}, image : Images,
             pair : Images \cup {NoImage}]

(* What a command at the end, and the head taken away, make of the queue.    *)
LEMMA Submit ==
    ASSUME queue \in Seq(Commands), NEW c \in Commands, queue' = Append(queue, c)
    PROVE  /\ queue' \in Seq(Commands)
           /\ queue' # <<>>
           /\ Len(queue) \in Nat /\ Len(queue') = Len(queue) + 1
           /\ DOMAIN queue = 1 .. Len(queue) /\ DOMAIN queue' = 1 .. Len(queue')
           /\ \A i \in 1 .. Len(queue) : queue'[i] = queue[i]
           /\ queue'[Len(queue')] = c
BY AppendProperties, LenProperties

(* What the GPU leaves of the queue when it takes the command at the head. *)
LEMMA Execute ==
    ASSUME queue \in Seq(Commands), queue # <<>>, queue' = Tail(queue)
    PROVE  /\ queue' \in Seq(Commands)
           /\ Len(queue) \in Nat \ {0} /\ Len(queue') = Len(queue) - 1
           /\ DOMAIN queue = 1 .. Len(queue) /\ DOMAIN queue' = 1 .. Len(queue')
           /\ \A i \in 1 .. Len(queue') : queue'[i] = queue[i + 1]
           /\ Head(queue) = queue[1] /\ Head(queue) \in Commands
           /\ queue' = <<>> <=> Len(queue) = 1
<1>1. /\ Head(queue) \in Commands
      /\ Tail(queue) \in Seq(Commands)
      /\ Len(Tail(queue)) = Len(queue) - 1
      /\ \A i \in 1 .. Len(Tail(queue)) : Tail(queue)[i] = queue[i + 1]
  BY HeadTailProperties
<1>2. Len(queue) \in Nat /\ Len(queue) # 0
  BY LenProperties, EmptySeq
<1>3. queue' = <<>> <=> Len(queue') = 0
  BY <1>1, EmptySeq
<1> QED
  BY <1>1, <1>2, <1>3, LenProperties

(* The queue as a function: its indices and what stands there. *)
LEMMA Queue ==
    ASSUME queue \in Seq(Commands)
    PROVE  /\ Len(queue) \in Nat /\ DOMAIN queue = 1 .. Len(queue)
           /\ \A i \in 1 .. Len(queue) : queue[i] \in Commands
           /\ queue = <<>> <=> Len(queue) = 0
BY LenProperties, ElementOfSeq, EmptySeq

(* The program starts with nothing made, queued or shown. *)
LEMMA InitFramesInv == Init => FramesInv
<1> SUFFICES ASSUME Init PROVE FramesInv
  OBVIOUS
<1>1. 0 \in Images /\ Images \subseteq Nat
  BY ImageCountAssumption DEF Images
<1>2. queue = <<>> /\ DOMAIN queue = {} /\ queue \in Seq(Commands)
  BY EmptySeq DEF Init
<1>3. TypeOK
  BY <1>1, <1>2 DEF Init, TypeOK, Commands
<1>4. SetupInv /\ RebuildInv
  BY <1>2 DEF Init, SetupInv, AsMade, RebuildInv, InFrame, Preparing
<1>5. FenceInv
  BY <1>2 DEF Init, FenceInv, Draws
<1> QED
  BY <1>3, <1>4, <1>5 DEF FramesInv

(* The steps that leave the queue, the GPU and the display alone. *)
Outdated ==
    /\ pc = "acquire"
    /\ rebuild' = TRUE /\ pc' = "poll" /\ UNCHANGED <<FrameIndex, SemaphoreIndex>>
    /\ UNCHANGED <<run, window, gpu>>

Idle ==
    \/ InitSDL \/ SetupVulkan \/ CreateSurface \/ SetupVulkanWindow \/ FontsUploaded
    \/ Poll \/ (Resize /\ ~(rebuild /\ window # "empty"))
    \/ Draw \/ Outdated \/ Leave \/ Cleanup \/ DeviceLost

(* The steps of the GUI thread that touch neither GPU nor frame counters. *)
LEMMA IdleStep ==
    ASSUME FramesInv, Idle
    PROVE  /\ UNCHANGED <<gpu, FrameIndex, SemaphoreIndex>>
           /\ pc' \in Preparing \cup Looping \cup {"idle", "gone", "aborted"}
           /\ run' \in BOOLEAN /\ rebuild' \in BOOLEAN
           /\ window' \in {"shown", "minimised", "empty"}
           /\ pc' \notin {"wait", "record", "present", "fontsIdle"}
           /\ pc' \in Preparing => pc \in Preparing \ {"fontsIdle"} /\ rebuild' = rebuild
           /\ pc = "fontsIdle" => queue = <<>> \/ pc' = "aborted"
           /\ pc \in {"aborted", "wait", "record", "present"} => pc' = "aborted"
           /\ pc' \in InFrame => rebuild' = FALSE
           /\ pc' = "draw" /\ rebuild' => window' = "empty"
           /\ pc' = "gone" => queue = <<>>
           /\ Live' => Live \/ (pc = "fontsIdle" /\ queue = <<>>)
           /\ Live' => pc \notin {"wait", "record", "present"}
<1> USE DEF FramesInv, TypeOK, Preparing, Looping, InFrame, Live, gpu, loop
<1>1. CASE InitSDL \/ CreateSurface
  BY <1>1 DEF InitSDL, CreateSurface, SetupOrUnready
<1>2. CASE SetupVulkan \/ SetupVulkanWindow
  BY <1>2 DEF SetupVulkan, SetupVulkanWindow, SetupOrEnd
<1>3. CASE FontsUploaded
  BY <1>3 DEF FontsUploaded
<1>4. CASE Poll
  BY <1>4 DEF Poll
<1>5. CASE Resize /\ ~(rebuild /\ window # "empty")
  BY <1>5 DEF Resize
<1>6. CASE Draw
  BY <1>6 DEF Draw, RebuildInv
<1>7. CASE Outdated
  BY <1>7 DEF Outdated
<1>8. CASE Leave \/ Cleanup \/ DeviceLost
  BY <1>8 DEF Leave, Cleanup, DeviceLost
<1> QED
  BY <1>1, <1>2, <1>3, <1>4, <1>5, <1>6, <1>7, <1>8 DEF Idle

(* The other steps of the loop that do not only wait. *)
Recreate == Resize /\ rebuild /\ window # "empty"

TakeImage ==
    /\ pc = "acquire"
    /\ HandOut
    /\ \/ pc' = "wait" /\ UNCHANGED rebuild
       \/ pc' = "poll" /\ rebuild' = TRUE
    /\ UNCHANGED <<run, window, SemaphoreIndex>>
    /\ UNCHANGED <<fence, acquired, rendered, queue, onScreen, presented>>

(* Every step is one of those, or a step of its own below. *)
LEMMA StepsOfNext ==
    ASSUME [Next]_vars, FramesInv
    PROVE  \/ Idle \/ Recreate \/ UploadFonts \/ TakeImage \/ WaitForFence
           \/ RecordAndSubmit \/ Present \/ Upload \/ Render \/ Show \/ Release
           \/ UNCHANGED vars
<1>1. CASE Acquire
  BY <1>1 DEF Acquire, TakeImage, Idle, Outdated, gpu
<1>2. CASE Resize
  BY <1>2 DEF Idle, Recreate
<1> QED
  BY <1>1, <1>2 DEF Next, Gui, Gpu, Idle

(* Setup, polling, leaving and cleaning up keep the frame invariant. *)
LEMMA IdleFramesInv == ASSUME FramesInv, Idle PROVE FramesInv'
<1>1. TypeOK'
  BY IdleStep DEF FramesInv, TypeOK, gpu, Preparing, Looping, InFrame
<1>2. SetupInv'
  <2>1. queue \in Seq(Commands)
    BY DEF FramesInv, TypeOK, Commands
  <2>2. UNCHANGED gpu
    BY IdleStep
  <2>3. pc' \in Preparing => AsMade' /\ rebuild' = FALSE /\ queue' = <<>>
    BY <2>2, IdleStep DEF FramesInv, SetupInv, AsMade, gpu, Preparing
  <2>4. pc' # "fontsIdle"
    BY IdleStep
  <2>5. ASSUME NEW i \in DOMAIN queue, Op(i) = "upload"
        PROVE  pc' = "aborted"
    <3>1. pc \in {"fontsIdle", "aborted"}
      BY <2>5 DEF FramesInv, SetupInv
    <3>2. queue # <<>>
      BY <2>1, <2>5, Queue
    <3> QED
      BY <3>1, <3>2, IdleStep
  <2> QED
    BY <2>2, <2>3, <2>4, <2>5 DEF FramesInv, SetupInv, gpu, Op
<1>3. RebuildInv'
  BY IdleStep DEF FramesInv, RebuildInv, InFrame
<1>4. FenceInv'
  BY IdleStep DEF FramesInv, FenceInv, Draws, Op, InQueue, gpu, Looping, Preparing
<1> QED
  BY <1>1, <1>2, <1>3, <1>4 DEF FramesInv

(* Every step keeps the types and what the fences are for. *)
LEMMA NextFramesInv == FramesInv /\ [Next]_vars => FramesInv'
<1> SUFFICES ASSUME FramesInv, [Next]_vars PROVE FramesInv'
  OBVIOUS
<1>0. /\ 0 \in Images /\ ImageCount \in Nat /\ Images \subseteq Nat /\ NoImage \notin Images
      /\ queue \in Seq(Commands)
  BY ImageCountAssumption DEF Images, NoImage, FramesInv, TypeOK, Commands
<1> USE DEF FramesInv, Preparing, InFrame
<1>1. CASE Idle
  BY <1>1, IdleFramesInv
<1>2. CASE Recreate
  <2>0. /\ pc' = "draw" /\ rebuild' = FALSE /\ FrameIndex' = 0
        /\ CreateOrResizeWindow
        /\ UNCHANGED <<run, window, SemaphoreIndex>>
    BY <1>2 DEF Recreate, Resize
  <2>1. /\ queue = <<>> /\ queue' = <<>> /\ DOMAIN queue = {}
        /\ pc' = "draw" /\ rebuild' = FALSE /\ FrameIndex' = 0
        /\ fence' = Images /\ owed' = {} /\ onScreen' = NoImage /\ presented' = NoImage
        /\ UNCHANGED <<run, window, SemaphoreIndex>>
    BY <1>0, <2>0, Queue DEF CreateOrResizeWindow
  <2>2. acquired' \in [Images -> Nat] /\ rendered' \in [Images -> Nat]
    BY <2>0 DEF CreateOrResizeWindow
  <2>3. TypeOK'
    BY <1>0, <2>1, <2>2 DEF TypeOK
  <2>4. SetupInv' /\ RebuildInv' /\ FenceInv'
    BY <2>1 DEF SetupInv, RebuildInv, FenceInv, Draws
  <2> QED
    BY <2>3, <2>4
<1>3. CASE UploadFonts
  <2>1. queue = <<>> /\ Command("upload", FrameIndex, NoImage) \in Commands
    BY <1>3 DEF UploadFonts, SetupInv, Command, Commands, TypeOK
  <2>2. /\ Len(queue') = 1 /\ queue' \in Seq(Commands) /\ DOMAIN queue' = 1 .. 1
        /\ queue'[1].op = "upload"
    BY <1>0, <1>3, <2>1, Submit, Queue DEF UploadFonts, Command
  <2>3. TypeOK'
    BY <1>3, <2>2 DEF UploadFonts, TypeOK, Commands, loop
  <2>4. SetupInv' /\ RebuildInv'
    BY <1>3, <2>2 DEF UploadFonts, SetupInv, RebuildInv, AsMade, Op, loop
  <2>5. FenceInv'
    BY <1>3, <2>2 DEF UploadFonts, FenceInv, Draws, Op
  <2> QED
    BY <2>3, <2>4, <2>5
<1>4. CASE TakeImage
  <2>1. FrameIndex' \in Images
    BY <1>4 DEF TakeImage, HandOut
  <2>2. owed' \subseteq [image : Images, pair : Images, toShow : BOOLEAN]
    <3>1. InQueue("show", FrameIndex') \in BOOLEAN
      BY DEF InQueue
    <3>2. [image |-> FrameIndex', pair |-> SemaphoreIndex,
           toShow |-> InQueue("show", FrameIndex')]
              \in [image : Images, pair : Images, toShow : BOOLEAN]
      BY <2>1, <3>1 DEF TypeOK
    <3> QED
      BY <1>4, <3>2 DEF TakeImage, HandOut, TypeOK
  <2>3. TypeOK'
    BY <1>4, <2>1, <2>2 DEF TakeImage, TypeOK
  <2>4. SetupInv' /\ RebuildInv'
    BY <1>4 DEF TakeImage, SetupInv, RebuildInv, Op, TypeOK
  <2>5. FenceInv'
    BY <1>4 DEF TakeImage, FenceInv, Draws, Op
  <2> QED
    BY <2>3, <2>4, <2>5
<1>5. CASE WaitForFence
  <2>1. TypeOK' /\ SetupInv' /\ RebuildInv'
    BY <1>5 DEF WaitForFence, TypeOK, SetupInv, RebuildInv, Op, loop
  <2>2. FenceInv'
    <3>1. ~InQueue("draw", FrameIndex)
      BY <1>5 DEF WaitForFence, FenceInv, Draws, Op, InQueue
    <3> QED
      BY <1>5, <3>1 DEF WaitForFence, FenceInv, Draws, Op, InQueue, loop
  <2> QED
    BY <2>1, <2>2
<1>6. CASE RecordAndSubmit
  <2> DEFINE c == Command("draw", FrameIndex, SemaphoreIndex)
  <2>1. c \in Commands /\ c.op = "draw" /\ c.image = FrameIndex /\ c.pair \in Images
    BY DEF Command, Commands, TypeOK
  <2>2. /\ queue' \in Seq(Commands) /\ queue' # <<>> /\ Len(queue') = Len(queue) + 1
        /\ Len(queue) \in Nat
        /\ DOMAIN queue = 1 .. Len(queue) /\ DOMAIN queue' = 1 .. Len(queue')
        /\ \A i \in 1 .. Len(queue) : queue'[i] = queue[i]
        /\ queue'[Len(queue')] = c
    BY <1>0, <1>6, <2>1, Submit DEF RecordAndSubmit
  <2> HIDE DEF c
  <2>3. TypeOK'
    BY <1>6, <2>2 DEF RecordAndSubmit, TypeOK, Commands, loop
  <2>4. SetupInv' /\ RebuildInv'
    BY <1>6, <2>1, <2>2 DEF RecordAndSubmit, SetupInv, RebuildInv, Op, loop
  <2>5. FenceInv'
    BY <1>6, <2>1, <2>2 DEF RecordAndSubmit, FenceInv, Draws, Op, InQueue, loop
  <2> QED
    BY <2>3, <2>4, <2>5
<1>7. CASE Present
  <2>1. /\ SemaphoreIndex' \in Images
        /\ rebuild' \in BOOLEAN
        /\ presented' \in Images \cup {NoImage}
        /\ UNCHANGED <<run, window, FrameIndex, fence, acquired, rendered, owed, onScreen>>
        /\ pc' = "poll"
    <3>1. (SemaphoreIndex + 1) % ImageCount \in Images
      <4>1. SemaphoreIndex \in 0 .. ImageCount - 1
        BY DEF TypeOK, Images
      <4> QED
        BY <4>1, ImageCountAssumption DEF Images
    <3> QED
      BY <1>7, <3>1 DEF Present, TypeOK
  <2>2. CASE UNCHANGED queue
    BY <1>7, <2>1, <2>2 DEF Present, TypeOK, SetupInv, RebuildInv, FenceInv,
         Draws, Op
  <2>3. CASE queue' = Append(queue, Command("show", FrameIndex, SemaphoreIndex))
    <3> DEFINE c == Command("show", FrameIndex, SemaphoreIndex)
    <3>1. c \in Commands /\ c.op = "show" /\ c.pair \in Images
      BY DEF Command, Commands, TypeOK
    <3>2. /\ queue' \in Seq(Commands) /\ queue' # <<>> /\ Len(queue') = Len(queue) + 1
          /\ Len(queue) \in Nat
          /\ DOMAIN queue = 1 .. Len(queue) /\ DOMAIN queue' = 1 .. Len(queue')
          /\ \A i \in 1 .. Len(queue) : queue'[i] = queue[i]
          /\ queue'[Len(queue')] = c
      BY <1>0, <2>3, <3>1, Submit
    <3> HIDE DEF c
    <3>3. TypeOK'
      BY <2>1, <3>2 DEF TypeOK, Commands
    <3>4. SetupInv' /\ RebuildInv'
      BY <1>7, <2>1, <3>1, <3>2 DEF Present, SetupInv, RebuildInv, Op
    <3>5. FenceInv'
      BY <2>1, <3>1, <3>2 DEF FenceInv, Draws, Op
    <3> QED
      BY <3>3, <3>4, <3>5
  <2> QED
    BY <1>7, <2>2, <2>3 DEF Present
<1>8. CASE Upload \/ Render \/ Show
  <2>1. queue # <<>> /\ queue' = Tail(queue) /\ UNCHANGED <<pc, loop, presented>>
    BY <1>8 DEF Upload, Render, Show
  <2>2. /\ queue' \in Seq(Commands)
        /\ Len(queue) \in Nat \ {0} /\ Len(queue') = Len(queue) - 1
        /\ DOMAIN queue = 1 .. Len(queue) /\ DOMAIN queue' = 1 .. Len(queue')
        /\ \A i \in 1 .. Len(queue') : queue'[i] = queue[i + 1]
        /\ Head(queue) = queue[1] /\ Head(queue) \in Commands
        /\ queue' = <<>> <=> Len(queue) = 1
    BY <1>0, <2>1, Execute
  <2>3. TypeOK'
    <3>1. acquired' \in [Images -> Nat] /\ rendered' \in [Images -> Nat]
      <4>1. acquired \in [Images -> Nat] /\ rendered \in [Images -> Nat]
        BY DEF TypeOK
      <4>2. ~Upload => queue[1].pair \in Images
        BY <1>8, <2>2 DEF SetupInv, Op, Render, Show
      <4> QED
        <5>1. CASE Upload
          BY <4>1, <5>1 DEF Upload
        <5>2. CASE Render
          BY <2>2, <4>1, <4>2, <5>2, SMTT(20) DEF Render, Add, Upload
        <5>3. CASE Show
          BY <2>2, <4>1, <4>2, <5>3 DEF Show, Upload
        <5> QED
          BY <1>8, <5>1, <5>2, <5>3
    <3>2. fence' \subseteq Images /\ onScreen' \in Images \cup {NoImage}
      BY <1>8, <2>2 DEF Upload, Render, Show, TypeOK, Commands
    <3>3. owed' \subseteq [image : Images, pair : Images, toShow : BOOLEAN]
      <4>1. owed \subseteq [image : Images, pair : Images, toShow : BOOLEAN]
        BY DEF TypeOK
      <4>2. CASE Show
        <5>1. \A o \in owed : [o EXCEPT !.toShow = @ /\ o.image # Head(queue).image]
                 \in [image : Images, pair : Images, toShow : BOOLEAN]
          BY <4>1
        <5> QED
          BY <4>2, <5>1 DEF Show
      <4> QED
        BY <1>8, <4>1, <4>2 DEF Upload, Render
    <3> QED
      BY <2>1, <2>2, <3>1, <3>2, <3>3 DEF TypeOK, Commands, loop
  <2>4. SetupInv'
    <3>1. pc = "fontsIdle" => Upload
      BY <1>8, <2>2 DEF SetupInv, Op, Render, Show
    <3> QED
      BY <1>8, <2>1, <2>2, <3>1 DEF SetupInv, AsMade, Op, Upload, loop
  <2>5. RebuildInv'
    BY <2>1 DEF RebuildInv, loop
  <2>6. FenceInv'
    <3>1. \A i \in Draws' : i + 1 \in Draws /\ queue'[i] = queue[i + 1]
      BY <2>2 DEF Draws, Op
    <3>2. fence' \subseteq fence \cup {queue[1].image}
          /\ (fence' # fence => 1 \in Draws)
      BY <1>8, <2>2 DEF Upload, Render, Show, Draws, Op
    <3>3. \A i \in Draws' : queue'[i].image \notin fence'
      BY <2>2, <3>1, <3>2 DEF FenceInv, Draws
    <3>4. \A i, j \in Draws' : queue'[i].image = queue'[j].image => i = j
      BY <2>2, <3>1 DEF FenceInv, Draws
    <3>5. pc' = "record" => FrameIndex' \notin fence' /\ ~InQueue("draw", FrameIndex)'
      BY <2>1, <2>2, <3>2 DEF FenceInv, InQueue, loop, Draws, Op
    <3> QED
      BY <2>1, <2>2, <3>3, <3>4, <3>5 DEF FenceInv
  <2> QED
    BY <2>3, <2>4, <2>5, <2>6
<1>9. CASE Release
  <2>1. TypeOK'
    <3>1. acquired \in [Images -> Nat]
          /\ owed \subseteq [image : Images, pair : Images, toShow : BOOLEAN]
      BY DEF TypeOK
    <3>2. acquired' \in [Images -> Nat] /\ owed' \subseteq owed
      BY <1>9, <3>1 DEF Release, Add
    <3> QED
      BY <1>9, <3>1, <3>2 DEF Release, TypeOK, loop
  <2>2. SetupInv' /\ RebuildInv' /\ FenceInv'
    BY <1>9 DEF Release, SetupInv, RebuildInv, FenceInv, AsMade, Draws, Op,
         InQueue, loop
  <2> QED
    BY <2>1, <2>2
<1>10. CASE UNCHANGED vars
  <2>1. TypeOK' /\ RebuildInv'
    BY <1>10 DEF vars, gpu, loop, TypeOK, RebuildInv
  <2>2. SetupInv' /\ FenceInv'
    BY <1>10 DEF vars, gpu, loop, SetupInv, FenceInv, AsMade, Draws, Op, InQueue
  <2> QED
    BY <2>1, <2>2
<1> QED
  BY <1>1, <1>2, <1>3, <1>4, <1>5, <1>6, <1>7, <1>8, <1>9, <1>10, StepsOfNext

(* Whatever the window, the swap chain and the GPU do, the loop's variables  *)
(* keep their types: every index is one of an image.                         *)
THEOREM TypeCorrect == Spec => []TypeOK
<1>1. FramesInv => TypeOK
  BY DEF FramesInv
<1> QED
  BY <1>1, InitFramesInv, NextFramesInv, PTL DEF Spec

(* In every behaviour, no command buffer is recorded while the GPU has yet   *)
(* to execute it, and nothing is destroyed that it has yet to use.           *)
THEOREM GpuNotDisturbed == Spec => []GpuLeftAlone
<1>1. FramesInv => GpuLeftAlone
  BY DEF FramesInv, FenceInv, SetupInv, GpuLeftAlone, InQueue, Op
<1> QED
  BY <1>1, InitFramesInv, NextFramesInv, PTL DEF Spec

-------------------------------------------------------------------------------
(* Facts of the types, for the proofs about the semaphores. *)
LEMMA Types ==
    ASSUME FramesInv
    PROVE  /\ ImageCount \in Nat /\ ImageCount >= 2 /\ Images = 0 .. ImageCount - 1
           /\ queue \in Seq(Commands)
           /\ Len(queue) \in Nat /\ DOMAIN queue = 1 .. Len(queue)
           /\ queue = <<>> <=> Len(queue) = 0
           /\ SemaphoreIndex \in Images /\ FrameIndex \in Images
           /\ acquired \in [Images -> Nat] /\ rendered \in [Images -> Nat]
           /\ owed \subseteq [image : Images, pair : Images, toShow : BOOLEAN]
           /\ \A i \in DOMAIN queue :
                  /\ queue[i] \in Commands
                  /\ Op(i) # "upload" => queue[i].pair \in Images
<1>1. queue \in Seq(Commands)
  BY DEF FramesInv, TypeOK, Commands
<1>2. \A i \in DOMAIN queue : Op(i) # "upload" => queue[i].pair \in Images
  BY DEF FramesInv, SetupInv
<1> QED
  BY <1>1, <1>2, Queue, ImageCountAssumption DEF Images, FramesInv, TypeOK

(* A live queue holds no upload, and a pair was taken one frame ago at least *)
(* and as many as there are pairs at most.                                   *)
LEMMA AgoRange ==
    ASSUME FramesInv, NEW pair \in Images
    PROVE  /\ Ago(SemaphoreIndex, pair) \in 1 .. ImageCount
           /\ Ago(SemaphoreIndex, pair) = ImageCount <=> pair = SemaphoreIndex
<1>1. /\ ImageCount \in Nat \ {0}
      /\ SemaphoreIndex \in Nat /\ SemaphoreIndex < ImageCount
      /\ pair \in Nat /\ pair < ImageCount
  BY Types
<1>2. CASE pair < SemaphoreIndex
  BY <1>1, <1>2 DEF Ago
<1>3. CASE ~(pair < SemaphoreIndex)
  BY <1>1, <1>3 DEF Ago
<1> QED
  BY <1>2, <1>3

(* If the pair taken next is still in the queue, a draw of every image is,   *)
(* and the draw with that pair is the first one.                             *)
LEMMA FullQueue ==
    ASSUME FramesInv, TurnInv, Live, pc # "present",
           NEW d \in Draws, queue[d].pair = SemaphoreIndex
    PROVE  /\ FirstDraw(SemaphoreIndex)
           /\ \A m \in Images : \E i \in Draws : queue[i].image = m /\ i + 1 \in DOMAIN queue
<1>0. /\ ImageCount \in Nat /\ ImageCount >= 2 /\ Images = 0 .. ImageCount - 1
      /\ Len(queue) \in Nat /\ DOMAIN queue = 1 .. Len(queue)
      /\ \A i \in DOMAIN queue : queue[i] \in Commands
      /\ \A i \in DOMAIN queue : Op(i) # "upload" => queue[i].pair \in Images
      /\ d \in 1 .. Len(queue) /\ Op(d) = "draw"
  BY Types DEF Draws
<1>1. /\ End = Len(queue)
      /\ \A i \in 1 .. Len(queue) :
             /\ Op(i) \in {"draw", "show"}
             /\ Op(i) = "draw" => Len(queue) - i = 2 * Ago(SemaphoreIndex, queue[i].pair) - 1
             /\ Op(i) = "show" => \E n \in 0 .. Len(queue) : Len(queue) - i = 2 * n
  <2>1. End = Len(queue)
    BY <1>0 DEF End
  <2> QED
    BY <2>1 DEF TurnInv, InTurn
<1>2. Len(queue) - d = 2 * ImageCount - 1
  <2>1. Ago(SemaphoreIndex, SemaphoreIndex) = ImageCount
    BY AgoRange, Types
  <2> QED
    BY <1>0, <1>1, <2>1
<1>3. ASSUME NEW i \in 1 .. Len(queue), Op(i) = "draw"
      PROVE  Len(queue) - i <= 2 * ImageCount - 1
  <2>1. /\ Ago(SemaphoreIndex, queue[i].pair) <= ImageCount
        /\ Ago(SemaphoreIndex, queue[i].pair) \in Nat
    BY <1>0, <1>3, AgoRange
  <2>2. Len(queue) - i = 2 * Ago(SemaphoreIndex, queue[i].pair) - 1
    BY <1>1, <1>3
  <2> QED
    BY <1>0, <2>1, <2>2
<1>4. d \in {1, 2}
  <2>1. SUFFICES ASSUME d >= 3 PROVE FALSE
    BY <1>0
  <2>2. d - 2 \in 1 .. Len(queue)
    BY <1>0, <2>1
  <2>3. Op(d - 2) # "draw"
    BY <1>0, <1>2, <1>3, <2>2
  <2>4. PICK n \in 0 .. Len(queue) : Len(queue) - (d - 2) = 2 * n
    BY <1>1, <2>2, <2>3
  <2> QED
    BY <1>0, <1>2, <2>4
<1>5. FirstDraw(SemaphoreIndex)
  <2>1. CASE d = 1
    BY <1>0, <2>1 DEF FirstDraw
  <2>2. CASE d = 2
    <3>1. Op(1) = "show"
      <4>0. 1 \in 1 .. Len(queue)
        BY <1>0, <2>2
      <4>1. Op(1) \in {"draw", "show"}
        BY <1>1, <4>0, Zenon
      <4>2. Op(1) # "draw"
        BY <1>0, <1>2, <1>3, <2>2
      <4> QED
        BY <4>1, <4>2
    <3> QED
      BY <1>0, <2>2, <3>1 DEF FirstDraw
  <2> QED
    BY <1>4, <2>1, <2>2
<1>6. \A k \in 0 .. ImageCount - 1 :
          d + 2 * k \in Draws /\ d + 2 * k + 1 \in DOMAIN queue
  <2> SUFFICES ASSUME NEW k \in 0 .. ImageCount - 1
               PROVE  d + 2 * k \in Draws /\ d + 2 * k + 1 \in DOMAIN queue
    OBVIOUS
  <2>1. d + 2 * k \in 1 .. Len(queue) /\ d + 2 * k + 1 \in 1 .. Len(queue)
    BY <1>0, <1>2
  <2>2. Op(d + 2 * k) = "draw"
    <3>1. SUFFICES ASSUME NEW n \in 0 .. Len(queue), Len(queue) - (d + 2 * k) = 2 * n
                   PROVE  FALSE
      BY <1>1, <2>1
    <3> QED
      BY <1>0, <1>2, <3>1
  <2> QED
    BY <1>0, <2>1, <2>2 DEF Draws
<1>7. ASSUME NEW m \in Images
      PROVE  \E k \in 0 .. ImageCount - 1 : queue[d + 2 * k].image = m
  <2>1. SUFFICES ASSUME \A k \in 0 .. ImageCount - 1 : queue[d + 2 * k].image # m
                 PROVE  FALSE
    OBVIOUS
  <2> DEFINE f == [k \in 0 .. ImageCount - 1 |-> queue[d + 2 * k].image]
  <2>2. f \in [0 .. ImageCount - 1 -> Images \ {m}]
    <3>1. ASSUME NEW k \in 0 .. ImageCount - 1
          PROVE  queue[d + 2 * k].image \in Images \ {m}
      BY <1>0, <1>6, <2>1 DEF Commands, Draws
    <3> QED
      BY <3>1
  <2>3. /\ IsFiniteSet(Images) /\ Cardinality(Images) = ImageCount
        /\ IsFiniteSet(0 .. ImageCount - 1) /\ Cardinality(0 .. ImageCount - 1) = ImageCount
    BY <1>0, FS_Interval
  <2>4. IsFiniteSet(Images \ {m}) /\ Cardinality(Images \ {m}) = ImageCount - 1
    BY <2>3, FS_RemoveElement
  <2>5. \E x, y \in 0 .. ImageCount - 1 : x # y /\ f[x] = f[y]
    <3> DEFINE S == 0 .. ImageCount - 1
               T == Images \ {m}
    <3>1. IsFiniteSet(S) /\ IsFiniteSet(T) /\ Cardinality(T) < Cardinality(S)
      BY <1>0, <2>3, <2>4
    <3>2. f \in [S -> T]
      BY <2>2
    <3> HIDE DEF f, S, T
    <3>3. \E x, y \in S : x # y /\ f[x] = f[y]
      BY <3>1, <3>2, FS_PigeonHole
    <3> QED
      BY <3>3 DEF S
  <2>6. PICK x, y \in 0 .. ImageCount - 1 :
            x # y /\ queue[d + 2 * x].image = queue[d + 2 * y].image
    BY <2>5
  <2>7. d + 2 * x = d + 2 * y
    BY <1>6, <2>6 DEF FramesInv, FenceInv
  <2> QED
    BY <1>0, <2>6, <2>7
<1>8. ASSUME NEW m \in Images
      PROVE  \E i \in Draws : queue[i].image = m /\ i + 1 \in DOMAIN queue
  BY <1>6, <1>7, <1>8
<1> QED
  BY <1>5, <1>8

(* What a step of the GPU leaves of the queue is the rest of it.             *)
GpuStep == Upload \/ Render \/ Show

(* Taking the head moves every other command one place forward. *)
LEMMA GpuTail ==
    ASSUME FramesInv, GpuStep
    PROVE  /\ queue # <<>> /\ UNCHANGED <<pc, loop, presented>>
           /\ Len(queue) \in Nat \ {0} /\ Len(queue') = Len(queue) - 1
           /\ DOMAIN queue = 1 .. Len(queue) /\ DOMAIN queue' = 1 .. Len(queue')
           /\ \A i \in 1 .. Len(queue') : queue'[i] = queue[i + 1]
           /\ Head(queue) = queue[1] /\ Head(queue) \in Commands
           /\ queue' = <<>> <=> Len(queue) = 1
BY Types, Execute DEF GpuStep, Upload, Render, Show

(* A live queue whose frame is complete ends with a present.                 *)
LEMMA LastIsShown ==
    ASSUME FramesInv, TurnInv, Live, pc # "present", queue # <<>>
    PROVE  Op(Len(queue)) = "show"
<1>1. /\ Len(queue) \in Nat \ {0} /\ End = Len(queue) /\ Len(queue) \in 1 .. Len(queue)
      /\ DOMAIN queue = 1 .. Len(queue)
  BY Types DEF End
<1>2. SUFFICES ASSUME Op(Len(queue)) = "draw",
                      End - Len(queue) = 2 * Ago(SemaphoreIndex, queue[Len(queue)].pair) - 1
               PROVE  FALSE
  BY <1>1 DEF TurnInv, InTurn
<1>3. Ago(SemaphoreIndex, queue[Len(queue)].pair) \in Nat
  BY <1>1, <1>2, Types, AgoRange, SMTT(20)
<1> QED
  BY <1>1, <1>2, <1>3

(* When a frame is recorded, its pair is not in the queue.                   *)
LEMMA PairIsFree ==
    ASSUME FramesInv, TurnInv, Live, pc # "present", ~InQueue("draw", FrameIndex),
           NEW i \in Draws
    PROVE  queue[i].pair # SemaphoreIndex
<1>1. FrameIndex \in Images
  BY Types
<1> QED
  BY <1>1, FullQueue DEF InQueue, Draws, Op

(* Every step keeps a present behind its draw. *)
LEMMA NextShowInv ==
    ASSUME FramesInv, ShowInv, TurnInv, [Next]_vars PROVE ShowInv'
<1>1. CASE UNCHANGED queue
  BY <1>1 DEF ShowInv, Draws, Op
<1>2. CASE UploadFonts
  <2>1. queue = <<>> /\ Command("upload", FrameIndex, NoImage) \in Commands
    BY <1>2 DEF UploadFonts, FramesInv, SetupInv, Preparing, Command, Commands,
         TypeOK
  <2>2. DOMAIN queue' = 1 .. 1 /\ queue'[1].op = "upload"
    BY <1>2, <2>1, Submit, Types DEF UploadFonts, Command
  <2> QED
    BY <2>2 DEF ShowInv, Draws, Op
<1>3. CASE RecordAndSubmit
  <2>1. Command("draw", FrameIndex, SemaphoreIndex) \in Commands
    BY DEF FramesInv, TypeOK, Command, Commands
  <2>2. /\ Len(queue) \in Nat /\ Len(queue') = Len(queue) + 1
        /\ DOMAIN queue = 1 .. Len(queue) /\ DOMAIN queue' = 1 .. Len(queue')
        /\ \A i \in 1 .. Len(queue) : queue'[i] = queue[i]
    BY <1>3, <2>1, Submit, Types DEF RecordAndSubmit
  <2>3. Live /\ pc # "present"
    BY <1>3 DEF RecordAndSubmit, Live, Looping, InFrame, FramesInv, RebuildInv
  <2>4. queue # <<>> => Op(Len(queue)) = "show"
    BY <2>3, LastIsShown
  <2>5. Len(queue) \in DOMAIN queue => queue # <<>>
    BY Types, <2>2
  <2> QED
    BY <2>2, <2>4, <2>5 DEF ShowInv, Draws, Op
<1>4. CASE queue' = Append(queue, Command("show", FrameIndex, SemaphoreIndex))
           /\ pc = "present"
  <2>1. Command("show", FrameIndex, SemaphoreIndex) \in Commands
    BY DEF FramesInv, TypeOK, Command, Commands
  <2>2. /\ Len(queue) \in Nat /\ Len(queue') = Len(queue) + 1
        /\ DOMAIN queue = 1 .. Len(queue) /\ DOMAIN queue' = 1 .. Len(queue')
        /\ \A i \in 1 .. Len(queue) : queue'[i] = queue[i]
        /\ queue'[Len(queue')] = Command("show", FrameIndex, SemaphoreIndex)
    BY <1>4, <2>1, Submit, Types
  <2>3. Live
    BY <1>4 DEF Live, Looping, InFrame, FramesInv, RebuildInv
  <2>4. Len(queue) \in DOMAIN queue =>
            queue[Len(queue)] = Command("draw", FrameIndex, SemaphoreIndex)
    BY <1>4, <2>2, <2>3, Types DEF TurnInv, InTurn
  <2>5. queue'[Len(queue')].op # "draw"
    BY <2>2 DEF Command
  <2> SUFFICES ASSUME NEW i \in Draws', i + 1 \in DOMAIN queue'
               PROVE  queue'[i + 1] = Command("show", queue'[i].image, queue'[i].pair)
    BY DEF ShowInv
  <2>6. i \in Draws /\ queue'[i] = queue[i]
    BY <2>2, <2>5 DEF Draws, Op
  <2>7. CASE i = Len(queue)
    BY <2>2, <2>4, <2>6, <2>7 DEF Command, Draws
  <2>8. CASE i # Len(queue)
    BY <2>2, <2>6, <2>8 DEF ShowInv, Draws
  <2> QED
    BY <2>7, <2>8
<1>5. CASE GpuStep
  BY <1>5, GpuTail DEF ShowInv, Draws, Op
<1> QED
  <2>1. Idle \/ Recreate \/ TakeImage \/ WaitForFence \/ Release \/ UNCHANGED vars
           => UNCHANGED queue
    BY IdleStep DEF gpu, Recreate, Resize, CreateOrResizeWindow, TakeImage, WaitForFence,
                    Release, vars
  <2> QED
    BY <1>1, <1>2, <1>3, <1>4, <1>5, <2>1, StepsOfNext DEF Present, GpuStep

(* The pair after the last one: every other pair was taken one frame before. *)
LEMMA NextPair ==
    ASSUME FramesInv, SemaphoreIndex' = (SemaphoreIndex + 1) % ImageCount
    PROVE  \A pair \in Images :
               Ago(SemaphoreIndex', pair) =
                   IF pair = SemaphoreIndex THEN 1 ELSE Ago(SemaphoreIndex, pair) + 1
<1>1. ImageCount \in Nat /\ ImageCount >= 2 /\ SemaphoreIndex \in 0 .. ImageCount - 1
      /\ Images = 0 .. ImageCount - 1
  BY Types
<1>2. SemaphoreIndex' = IF SemaphoreIndex + 1 = ImageCount THEN 0 ELSE SemaphoreIndex + 1
  BY <1>1
<1> SUFFICES ASSUME NEW pair \in 0 .. ImageCount - 1
             PROVE  SemaphoreIndex' - pair
                        + (IF pair < SemaphoreIndex' THEN 0 ELSE ImageCount)
                    = IF pair = SemaphoreIndex THEN 1
                      ELSE SemaphoreIndex - pair
                        + (IF pair < SemaphoreIndex THEN 0 ELSE ImageCount) + 1
  BY <1>1 DEF Ago
<1>3. CASE SemaphoreIndex + 1 = ImageCount
  BY <1>1, <1>2, <1>3
<1>4. CASE SemaphoreIndex + 1 # ImageCount
  BY <1>1, <1>2, <1>4
<1> QED
  BY <1>3, <1>4

(* Every step keeps the pairs in turn. *)
LEMMA NextTurnInv ==
    ASSUME FramesInv, TurnInv, [Next]_vars PROVE TurnInv'
<1> SUFFICES ASSUME Live'
             PROVE  /\ \A i \in 1 .. End' : InTurn(i)'
                    /\ pc' = "present" =>
                           /\ queue' # <<>> =>
                                  queue'[Len(queue')]
                                      = Command("draw", FrameIndex', SemaphoreIndex')
                           /\ \A i \in Draws' \cap 1 .. End' :
                                  queue'[i].pair # SemaphoreIndex'
  BY DEF TurnInv, InTurn
<1>0. Live => \A i \in 1 .. End : InTurn(i)
  BY DEF TurnInv, InTurn
<1>1. ASSUME Live, pc # "present", pc' # "present", UNCHANGED <<queue, SemaphoreIndex>>
      PROVE  \A i \in 1 .. End' : InTurn(i)'
  BY <1>0, <1>1 DEF InTurn, End, Ago, Op
<1>2. ASSUME queue' = <<>>, pc' # "present"
      PROVE  \A i \in 1 .. End' : InTurn(i)'
  <2>1. Len(queue') = 0
    BY <1>2
  <2> QED
    BY <1>2, <2>1 DEF End
<1>3. CASE Idle
  <2>1. pc' # "present" /\ UNCHANGED <<queue, SemaphoreIndex>>
    BY <1>3, IdleStep DEF gpu
  <2>2. (Live /\ pc # "present") \/ queue' = <<>>
    BY <1>3, IdleStep DEF gpu
  <2> QED
    BY <1>1, <1>2, <2>1, <2>2
<1>4. CASE Recreate
  <2>1. queue' = <<>> /\ pc' # "present"
    BY <1>4 DEF Recreate, Resize, CreateOrResizeWindow
  <2> QED
    BY <1>2, <2>1
<1>5. CASE UploadFonts
  BY <1>5 DEF UploadFonts, Live, Looping, InFrame
<1>6. CASE TakeImage \/ WaitForFence
  <2>1. Live /\ pc # "present" /\ pc' # "present" /\ UNCHANGED <<queue, SemaphoreIndex>>
    BY <1>6 DEF TakeImage, WaitForFence, FramesInv, RebuildInv, Live, Looping,
         InFrame, loop
  <2> QED
    BY <1>1, <2>1
<1>7. CASE RecordAndSubmit
  <2>1. Command("draw", FrameIndex, SemaphoreIndex) \in Commands
    BY DEF FramesInv, TypeOK, Command, Commands
  <2>2. /\ Len(queue) \in Nat /\ Len(queue') = Len(queue) + 1
        /\ DOMAIN queue = 1 .. Len(queue) /\ DOMAIN queue' = 1 .. Len(queue')
        /\ \A i \in 1 .. Len(queue) : queue'[i] = queue[i]
        /\ queue'[Len(queue')] = Command("draw", FrameIndex, SemaphoreIndex)
    BY <1>7, <2>1, Submit, Types DEF RecordAndSubmit
  <2>3. Live /\ pc = "record" /\ pc' = "present"
        /\ UNCHANGED <<FrameIndex, SemaphoreIndex>>
    BY <1>7 DEF RecordAndSubmit, Live, Looping, InFrame, FramesInv, RebuildInv, loop
  <2>4. End = Len(queue) /\ End' = Len(queue)
    BY <2>2, <2>3 DEF End
  <2>5. ASSUME NEW i \in 1 .. End'
        PROVE  InTurn(i)'
    <3>1. InTurn(i) /\ queue'[i] = queue[i]
      BY <1>0, <2>2, <2>3, <2>4
    <3> QED
      <4>1. 0 .. Len(queue) \subseteq 0 .. Len(queue')
        BY <2>2
      <4> QED
        BY <2>3, <2>4, <3>1, <4>1 DEF InTurn, Op
  <2>6. ASSUME NEW i \in Draws', i \in 1 .. End'
        PROVE  queue'[i].pair # SemaphoreIndex'
    <3>1. i \in Draws /\ queue'[i] = queue[i]
      BY <2>2, <2>4, <2>6 DEF Draws, Op
    <3>2. ~InQueue("draw", FrameIndex)
      BY <2>3 DEF FramesInv, FenceInv
    <3> QED
      BY <2>3, <3>1, <3>2, PairIsFree
  <2> QED
    BY <2>2, <2>3, <2>5, <2>6
<1>8. CASE Present
  <2>1. Live /\ pc = "present" /\ pc' = "poll" /\ rebuild' = FALSE
    BY <1>8 DEF Present, Live, Looping, InFrame, FramesInv, RebuildInv
  <2>2. /\ queue' = Append(queue, Command("show", FrameIndex, SemaphoreIndex))
        /\ SemaphoreIndex' = (SemaphoreIndex + 1) % ImageCount
    BY <1>8, <2>1 DEF Present
  <2>3. Command("show", FrameIndex, SemaphoreIndex) \in Commands
    BY DEF FramesInv, TypeOK, Command, Commands
  <2>4. /\ Len(queue) \in Nat /\ Len(queue') = Len(queue) + 1
        /\ DOMAIN queue = 1 .. Len(queue) /\ DOMAIN queue' = 1 .. Len(queue')
        /\ \A i \in 1 .. Len(queue) : queue'[i] = queue[i]
        /\ queue'[Len(queue')] = Command("show", FrameIndex, SemaphoreIndex)
    BY <2>2, <2>3, Submit, Types
  <2>5. End = Len(queue) - 1 /\ End' = Len(queue) + 1
    BY <2>1, <2>4 DEF End
  <2>6. ASSUME NEW i \in 1 .. End'
        PROVE  InTurn(i)'
    <3>1. CASE i = Len(queue) + 1
      <4>1. Op(i)' = "show" /\ End' - i = 2 * 0 /\ 0 \in 0 .. Len(queue')
        BY <2>4, <2>5, <3>1 DEF Op, Command
      <4> QED
        BY <4>1 DEF InTurn
    <3>2. CASE i = Len(queue)
      <4>1. queue'[i] = Command("draw", FrameIndex, SemaphoreIndex)
        BY <2>1, <2>4, <3>2, Types DEF TurnInv, InTurn
      <4>2. Ago(SemaphoreIndex', SemaphoreIndex) = 1 /\ SemaphoreIndex \in Images
        BY <2>2, NextPair, Types
      <4>3. Op(i)' = "draw" /\ queue'[i].pair = SemaphoreIndex
        BY <4>1 DEF Op, Command
      <4>4. Ago(SemaphoreIndex', queue'[i].pair) = 1
        BY <4>2, <4>3 DEF Ago
      <4> QED
        BY <2>4, <2>5, <3>2, <4>3, <4>4 DEF InTurn
    <3>3. CASE i \in 1 .. End /\ Op(i) = "draw"
      <4>1. i \in Draws /\ queue'[i] = queue[i] /\ InTurn(i) /\ Op(i)' = "draw"
        BY <1>0, <2>1, <2>4, <2>5, <3>3 DEF Draws, Op
      <4>2. queue[i].pair # SemaphoreIndex /\ queue[i].pair \in Images
        BY <2>1, <3>3, <4>1, Types DEF TurnInv, Draws
      <4>3. /\ Ago(SemaphoreIndex', queue[i].pair) = Ago(SemaphoreIndex, queue[i].pair) + 1
            /\ Ago(SemaphoreIndex, queue[i].pair) \in Nat
        BY <2>2, <4>2, NextPair, AgoRange DEF Ago
      <4>4. Ago(SemaphoreIndex', queue'[i].pair) = Ago(SemaphoreIndex, queue[i].pair) + 1
        BY <4>1, <4>2, <2>2, NextPair DEF Ago
      <4>5. End - i = 2 * Ago(SemaphoreIndex, queue[i].pair) - 1
        BY <3>3, <4>1 DEF InTurn
      <4>6. End' - i = 2 * Ago(SemaphoreIndex', queue'[i].pair) - 1
        <5>1. End \in Int /\ i \in Int /\ End' = End + 2
          BY <2>4, <2>5
        <5>2. End' - i = (End - i) + 2
          BY <5>1
        <5>3. 2 * Ago(SemaphoreIndex', queue'[i].pair) - 1
                  = (2 * Ago(SemaphoreIndex, queue[i].pair) - 1) + 2
          BY <4>3, <4>4
        <5> QED
          BY <4>5, <5>2, <5>3
      <4> QED
        BY <4>1, <4>6 DEF InTurn
    <3>4. CASE i \in 1 .. End /\ Op(i) # "draw"
      <4>1. queue'[i] = queue[i] /\ Op(i)' = Op(i) /\ InTurn(i)
        BY <1>0, <2>1, <2>4, <2>5, <3>4 DEF Op
      <4>2. PICK n \in 0 .. Len(queue) : End - i = 2 * n
        BY <3>4, <4>1 DEF InTurn
      <4>3. End' - i = 2 * (n + 1) /\ n + 1 \in 0 .. Len(queue')
        BY <2>4, <2>5, <4>2
      <4> QED
        BY <3>4, <4>1, <4>3 DEF InTurn
    <3>5. i = Len(queue) + 1 \/ i = Len(queue) \/ i \in 1 .. End
      <4>1. Len(queue) \in Nat /\ i \in 1 .. Len(queue) + 1
        BY <2>4, <2>5
      <4> QED
        BY <2>5, <4>1
    <3>6. CASE i \in 1 .. End
      BY <3>3, <3>4, <3>6, Zenon
    <3> QED
      BY <3>1, <3>2, <3>5, <3>6, Zenon
  <2> QED
    BY <2>1, <2>6
<1>9. CASE GpuStep
  <2>1. /\ UNCHANGED <<pc, loop>>
        /\ Len(queue) \in Nat \ {0} /\ Len(queue') = Len(queue) - 1
        /\ DOMAIN queue = 1 .. Len(queue) /\ DOMAIN queue' = 1 .. Len(queue')
        /\ \A i \in 1 .. Len(queue') : queue'[i] = queue[i + 1]
        /\ queue # <<>> /\ (queue' = <<>> <=> Len(queue) = 1)
    BY <1>9, GpuTail
  <2>2. Live /\ UNCHANGED <<SemaphoreIndex, FrameIndex>>
    BY <2>1 DEF Live, loop
  <2>3. End' = End - 1 /\ End \in Int /\ End <= Len(queue)
    BY <2>1 DEF End
  <2>4. ASSUME NEW i \in 1 .. End'
        PROVE  InTurn(i)'
    <3>1. i + 1 \in 1 .. End /\ queue'[i] = queue[i + 1] /\ Op(i)' = Op(i + 1)
      BY <2>1, <2>3 DEF Op
    <3>2. InTurn(i + 1)
      BY <1>0, <2>2, <3>1
    <3>3. CASE Op(i + 1) = "draw"
      <4>1. Ago(SemaphoreIndex', queue'[i].pair) = Ago(SemaphoreIndex, queue[i + 1].pair)
        BY <2>2, <3>1 DEF Ago
      <4>2. End - (i + 1) = 2 * Ago(SemaphoreIndex, queue[i + 1].pair) - 1
        BY <3>2, <3>3 DEF InTurn
      <4>3. End' - i = 2 * Ago(SemaphoreIndex', queue'[i].pair) - 1
        BY <2>3, <4>1, <4>2
      <4> QED
        BY <3>1, <3>3, <4>3 DEF InTurn
    <3>4. CASE Op(i + 1) # "draw"
      <4>1. PICK n \in 0 .. Len(queue) : End - (i + 1) = 2 * n
        BY <3>2, <3>4 DEF InTurn
      <4>2. End' - i = 2 * n /\ n \in 0 .. Len(queue')
        BY <2>1, <2>3, <4>1
      <4> QED
        BY <3>1, <3>2, <3>4, <4>2 DEF InTurn
    <3> QED
      BY <3>3, <3>4
  <2>5. ASSUME pc' = "present", queue' # <<>>
        PROVE  queue'[Len(queue')] = Command("draw", FrameIndex', SemaphoreIndex')
    BY <2>1, <2>2, <2>5 DEF TurnInv, InTurn
  <2>6. ASSUME pc' = "present", NEW i \in Draws', i \in 1 .. End'
        PROVE  queue'[i].pair # SemaphoreIndex'
    <3>1. i + 1 \in Draws /\ i + 1 \in 1 .. End /\ queue'[i] = queue[i + 1]
      BY <2>1, <2>3, <2>6 DEF Draws, Op
    <3> QED
      BY <2>1, <2>2, <2>6, <3>1 DEF TurnInv, InTurn
  <2> QED
    BY <2>4, <2>5, <2>6
<1>10. CASE Release \/ UNCHANGED vars
  <2>1. UNCHANGED <<pc, queue, SemaphoreIndex, FrameIndex, rebuild>>
    BY <1>10 DEF Release, vars, loop, gpu
  <2> QED
    BY <2>1 DEF TurnInv, InTurn, Live, End, Ago, Op, Draws
<1> QED
  BY <1>3, <1>4, <1>5, <1>6, <1>7, <1>8, <1>9, <1>10, StepsOfNext DEF GpuStep

(* Every step keeps a pair signalled only between its draw and its present.  *)
LEMMA NextRenderedInv ==
    ASSUME FramesInv, ShowInv, TurnInv, RenderedInv, [Next]_vars PROVE RenderedInv'
<1>0. /\ rendered \in [Images -> Nat] /\ SemaphoreIndex \in Images
      /\ Len(queue) \in Nat /\ DOMAIN queue = 1 .. Len(queue)
      /\ queue = <<>> <=> Len(queue) = 0
  BY Types
<1>1. ASSUME Live, pc # "present", queue = <<>>, NEW pair \in Images
      PROVE  rendered[pair] = 0
  BY <1>1 DEF RenderedInv
<1>2. ASSUME pc \in Preparing, NEW pair \in Images
      PROVE  rendered[pair] = 0
  BY <1>2 DEF FramesInv, SetupInv, AsMade
<1>3. ASSUME UNCHANGED <<queue, rendered>>,
             Live' => (Live /\ pc # "present") \/ pc \in Preparing
      PROVE  RenderedInv'
  BY <1>1, <1>2, <1>3 DEF RenderedInv, Op
<1>4. CASE Idle
  BY <1>3, <1>4, IdleStep DEF gpu, Preparing
<1>5. CASE Recreate
  <2>1. \A pair \in Images : rendered'[pair] = 0
    BY <1>5 DEF Recreate, Resize, CreateOrResizeWindow
  <2> QED
    BY <2>1 DEF RenderedInv
<1>6. CASE UploadFonts
  <2>1. rendered' = rendered /\ pc \in Preparing
    BY <1>6 DEF UploadFonts, Preparing
  <2> QED
    BY <1>2, <2>1 DEF RenderedInv
<1>7. CASE TakeImage \/ WaitForFence
  BY <1>3, <1>7 DEF TakeImage, WaitForFence, Live, Looping, InFrame, FramesInv,
       RebuildInv
<1>8. ASSUME NEW c \in Commands, queue' = Append(queue, c), UNCHANGED rendered, Live,
             pc = "present" => c.op = "show" /\ c.pair = SemaphoreIndex
      PROVE  RenderedInv'
  <2>1. /\ queue' # <<>> /\ Len(queue') = Len(queue) + 1
        /\ \A i \in 1 .. Len(queue) : queue'[i] = queue[i]
        /\ queue'[Len(queue')] = c
    BY <1>8, Submit, Types
  <2> SUFFICES ASSUME NEW pair \in Images, rendered[pair] = 1
               PROVE  Op(1)' = "show" /\ queue'[1].pair = pair
    BY <1>8, <2>1 DEF RenderedInv
  <2>2. CASE queue = <<>>
    <3>1. pc = "present" /\ pair = SemaphoreIndex
      BY <1>8, <2>2 DEF RenderedInv
    <3>2. queue'[1] = c
      BY <1>0, <2>1, <2>2
    <3> QED
      BY <1>8, <3>1, <3>2 DEF Op
  <2>3. CASE queue # <<>>
    <3>1. queue'[1] = queue[1]
      BY <1>0, <2>1, <2>3
    <3>2. Op(1) = "show" /\ queue[1].pair = pair
      BY <2>3 DEF RenderedInv
    <3> QED
      BY <3>1, <3>2 DEF Op
  <2> QED
    BY <2>2, <2>3
<1>9. CASE RecordAndSubmit
  <2>1. Command("draw", FrameIndex, SemaphoreIndex) \in Commands
    BY DEF FramesInv, TypeOK, Command, Commands
  <2> QED
    BY <1>8, <1>9, <2>1 DEF RecordAndSubmit, Live, Looping, InFrame, FramesInv,
         RebuildInv
<1>10. CASE Present
  <2>1. /\ Command("show", FrameIndex, SemaphoreIndex) \in Commands
        /\ Command("show", FrameIndex, SemaphoreIndex).op = "show"
        /\ Command("show", FrameIndex, SemaphoreIndex).pair = SemaphoreIndex
    BY DEF FramesInv, TypeOK, Command, Commands
  <2>2. Live /\ UNCHANGED rendered
    BY <1>10 DEF Present, Live, Looping, InFrame, FramesInv, RebuildInv
  <2>3. CASE UNCHANGED queue
    BY <1>3, <1>10, <2>2, <2>3 DEF Present, Live
  <2>4. CASE queue' = Append(queue, Command("show", FrameIndex, SemaphoreIndex))
    BY <1>8, <2>1, <2>2, <2>4
  <2> QED
    BY <1>10, <2>3, <2>4 DEF Present
<1>11. CASE GpuStep
  <2>1. /\ queue # <<>> /\ UNCHANGED <<pc, loop>>
        /\ Len(queue) \in Nat \ {0} /\ Len(queue') = Len(queue) - 1
        /\ DOMAIN queue = 1 .. Len(queue) /\ 1 \in DOMAIN queue
        /\ \A i \in 1 .. Len(queue') : queue'[i] = queue[i + 1]
        /\ Head(queue) = queue[1]
        /\ queue' = <<>> <=> Len(queue) = 1
    BY <1>11, GpuTail
  <2>2. \A pair \in Images :
            /\ rendered[pair] \in {0, 1}
            /\ rendered[pair] = 1 => Op(1) = "show" /\ queue[1].pair = pair
    BY <2>1 DEF RenderedInv
  <2>3. CASE Upload
    <3>1. rendered' = rendered /\ \A pair \in Images : rendered[pair] = 0
      BY <2>1, <2>2, <2>3 DEF Upload, Op
    <3> QED
      BY <3>1 DEF RenderedInv
  <2>4. CASE Show
    <3>1. queue[1].pair \in Images
      BY <2>1, <2>4, Types DEF Show, Op
    <3>2. \A pair \in Images : rendered'[pair] = 0
      BY <1>0, <2>1, <2>2, <2>4, <3>1 DEF Show
    <3> QED
      BY <3>2 DEF RenderedInv
  <2>5. CASE Render
    <3>1. /\ queue[1].pair \in Images /\ Op(1) = "draw" /\ 1 \in Draws
          /\ rendered' = Add(rendered, queue[1].pair, 1)
      BY <2>1, <2>5, Types DEF Render, Op, Draws
    <3>2. \A pair \in Images : rendered[pair] = 0
      BY <2>2, <3>1
    <3>3. \A pair \in Images : rendered'[pair] = IF pair = queue[1].pair THEN 1 ELSE 0
      BY <1>0, <3>1, <3>2 DEF Add
    <3>4. CASE Len(queue) = 1
      <4>1. SUFFICES ASSUME Live PROVE pc = "present" /\ queue[1].pair = SemaphoreIndex
        BY <2>1, <3>3, <3>4 DEF RenderedInv, Live, loop
      <4>2. pc = "present"
        BY <2>1, <3>1, <3>4, <4>1, LastIsShown
      <4>3. queue[1] = Command("draw", FrameIndex, SemaphoreIndex)
        BY <2>1, <3>4, <4>1, <4>2 DEF TurnInv
      <4> QED
        BY <4>2, <4>3 DEF Command
    <3>5. CASE Len(queue) # 1
      <4>1. queue'[1] = queue[2] /\ 2 \in DOMAIN queue /\ queue' # <<>>
        BY <2>1, <3>5
      <4>2. queue[2] = Command("show", queue[1].image, queue[1].pair)
        BY <3>1, <4>1 DEF ShowInv
      <4>3. Op(1)' = "show" /\ queue'[1].pair = queue[1].pair
        BY <4>1, <4>2 DEF Op, Command
      <4> QED
        BY <3>3, <4>1, <4>3 DEF RenderedInv
    <3> QED
      BY <3>4, <3>5
  <2> QED
    BY <1>11, <2>3, <2>4, <2>5 DEF GpuStep
<1>12. CASE Release \/ UNCHANGED vars
  <2>1. UNCHANGED <<pc, queue, rendered, SemaphoreIndex, rebuild>>
    BY <1>12 DEF Release, vars, loop, gpu
  <2> QED
    BY <2>1 DEF RenderedInv, Live, Op
<1> QED
  BY <1>4, <1>5, <1>6, <1>7, <1>9, <1>10, <1>11, <1>12, StepsOfNext DEF GpuStep

(* No pair has been taken again: every signal has its pair for itself.       *)
NoneAgain ==
    /\ \A o \in owed : acquired[o.pair] = 0
    /\ \A o1, o2 \in owed : o1.pair = o2.pair => o1 = o2

(* When a frame begins, no owed signal uses the pair that it will take. *)
LEMMA Alone ==
    ASSUME FramesInv, AcquiredInv, Live => pc # "wait", Live \/ AsMade
    PROVE  NoneAgain
<1>1. owed \subseteq [image : Images, pair : Images, toShow : BOOLEAN]
  BY Types
<1>2. CASE Live
  BY <1>1, <1>2 DEF AcquiredInv, Again, NoneAgain
<1>3. CASE AsMade
  BY <1>3 DEF AsMade, NoneAgain
<1> QED
  BY <1>2, <1>3

(* Signals that have their pairs for themselves need no waiting.             *)
LEMMA StillAlone ==
    ASSUME FramesInv, AcquiredInv, NoneAgain, UNCHANGED <<acquired, owed>>,
           Live' =>
               \A pair \in Images :
                   acquired[pair] = 1 \/ (\E o \in owed : o.pair = pair) =>
                       \/ \E i \in Draws' : queue'[i].pair = pair
                       \/ pair = SemaphoreIndex' /\ pc' \in {"wait", "record"}
    PROVE  AcquiredInv'
<1>1. \A o \in owed' : acquired'[o.pair] = 0
  BY DEF NoneAgain
<1>2. \A o1, o2 \in owed' : o1.pair = o2.pair => o1 = o2
  BY DEF NoneAgain
<1>3. \A pair \in Images : acquired'[pair] \in {0, 1}
  BY DEF AcquiredInv
<1>4. Live' =>
          \A pair \in Images :
              acquired'[pair] = 1 \/ (\E o \in owed' : o.pair = pair) =>
                  \/ \E i \in Draws' : queue'[i].pair = pair
                  \/ pair = SemaphoreIndex' /\ pc' \in {"wait", "record"}
  OBVIOUS
<1> QED
  BY <1>1, <1>2, <1>3, <1>4 DEF AcquiredInv

(* The draw that comes first is one of the queue.                            *)
LEMMA FirstIsDraw ==
    ASSUME FramesInv, NEW pair \in Images, FirstDraw(pair)
    PROVE  \E d \in Draws : queue[d].pair = pair
BY DEF FirstDraw, Draws

(* Every step of the loop keeps a pair taken again from being signalled.     *)
LEMMA LoopAcquiredInv ==
    ASSUME FramesInv, ShowInv, TurnInv, AcquiredInv,
           \/ Idle \/ Recreate \/ UploadFonts \/ WaitForFence \/ RecordAndSubmit
           \/ Present \/ UNCHANGED vars
    PROVE  AcquiredInv'
<1>0. /\ owed \subseteq [image : Images, pair : Images, toShow : BOOLEAN]
      /\ SemaphoreIndex \in Images /\ FrameIndex \in Images
      /\ Len(queue) \in Nat /\ DOMAIN queue = 1 .. Len(queue)
  BY Types
<1>1. ASSUME AsMade, UNCHANGED <<acquired, owed>>
      PROVE  AcquiredInv'
  BY <1>1 DEF AsMade, AcquiredInv
<1>2. CASE Idle
  <2>1. UNCHANGED <<acquired, owed, queue, onScreen, SemaphoreIndex>>
    BY <1>2, IdleStep DEF gpu
  <2>2. CASE ~Live'
    <3>1. \A o \in owed : Held(o)' = Held(o) /\ (Again(o.pair) => Again(o.pair)')
      BY <2>1, <2>2 DEF Held, FirstDraw, InQueue, Op, Again
    <3> QED
      BY <2>1, <2>2, <3>1 DEF AcquiredInv
  <2>3. CASE Live'
    <3>1. CASE Live /\ pc \notin {"wait", "record"}
      <4>1. NoneAgain
        BY <3>1, Alone
      <4> QED
        BY <2>1, <3>1, <4>1, StillAlone DEF AcquiredInv, Draws, Op
    <3>2. CASE pc = "fontsIdle"
      BY <1>1, <2>1, <3>2 DEF FramesInv, SetupInv, Preparing
    <3> QED
      BY <1>2, <2>3, <3>1, <3>2, IdleStep
  <2> QED
    BY <2>2, <2>3
<1>3. CASE Recreate
  <2>1. owed' = {} /\ \A pair \in Images : acquired'[pair] = 0
    BY <1>3 DEF Recreate, Resize, CreateOrResizeWindow
  <2> QED
    BY <2>1 DEF AcquiredInv
<1>4. CASE UploadFonts
  BY <1>1, <1>4 DEF UploadFonts, FramesInv, SetupInv, Preparing
<1>5. CASE WaitForFence
  <2>1. Live /\ Live' /\ pc' = "record" /\ pc = "wait" /\ FrameIndex \in fence
        /\ UNCHANGED <<acquired, owed, queue, SemaphoreIndex>>
    BY <1>5 DEF WaitForFence, FramesInv, RebuildInv, Live, Looping, InFrame, loop
  <2>2. ~FirstDraw(SemaphoreIndex)
    <3>1. SUFFICES ASSUME NEW d \in Draws, queue[d].pair = SemaphoreIndex
                   PROVE  FALSE
      BY <1>0, FirstIsDraw
    <3>2. PICK i \in Draws : queue[i].image = FrameIndex
      BY <1>0, <2>1, <3>1, FullQueue
    <3> QED
      BY <2>1, <3>2 DEF FramesInv, FenceInv
  <2>3. NoneAgain
    BY <1>0, <2>2 DEF AcquiredInv, Held, Again, NoneAgain
  <2> QED
    BY <2>1, <2>3, StillAlone DEF AcquiredInv, Draws, Op
<1>6. CASE RecordAndSubmit
  <2>1. Command("draw", FrameIndex, SemaphoreIndex) \in Commands
    BY <1>0 DEF Command, Commands
  <2>2. /\ Len(queue') = Len(queue) + 1 /\ DOMAIN queue' = 1 .. Len(queue')
        /\ \A i \in 1 .. Len(queue) : queue'[i] = queue[i]
        /\ queue'[Len(queue')] = Command("draw", FrameIndex, SemaphoreIndex)
    BY <1>6, <2>1, Submit, Types DEF RecordAndSubmit
  <2>3. Live /\ pc = "record" /\ UNCHANGED <<acquired, owed, SemaphoreIndex>>
    BY <1>6 DEF RecordAndSubmit, Live, Looping, InFrame, FramesInv, RebuildInv, loop
  <2>4. NoneAgain
    BY <2>3, Alone
  <2>5. /\ \A i \in Draws : i \in Draws' /\ queue'[i] = queue[i]
        /\ Len(queue') \in Draws' /\ queue'[Len(queue')].pair = SemaphoreIndex
    BY <1>0, <2>2 DEF Draws, Op, Command
  <2>6. ASSUME NEW pair \in Images,
               acquired[pair] = 1 \/ \E o \in owed : o.pair = pair
        PROVE  \E i \in Draws' : queue'[i].pair = pair
    BY <2>3, <2>5, <2>6 DEF AcquiredInv
  <2> QED
    BY <2>3, <2>4, <2>6, StillAlone
<1>7. CASE Present
  <2>1. Live /\ pc = "present" /\ UNCHANGED <<acquired, owed>>
    BY <1>7 DEF Present, Live, Looping, InFrame, FramesInv, RebuildInv
  <2>2. NoneAgain
    BY <2>1, Alone
  <2>3. \A i \in Draws : i \in Draws' /\ queue'[i] = queue[i]
    <3>1. CASE UNCHANGED queue
      BY <3>1 DEF Draws, Op
    <3>2. CASE queue' = Append(queue, Command("show", FrameIndex, SemaphoreIndex))
      <4>1. Command("show", FrameIndex, SemaphoreIndex) \in Commands
        BY <1>0 DEF Command, Commands
      <4>2. /\ Len(queue') = Len(queue) + 1 /\ DOMAIN queue' = 1 .. Len(queue')
            /\ \A i \in 1 .. Len(queue) : queue'[i] = queue[i]
        BY <3>2, <4>1, Submit, Types
      <4> QED
        BY <1>0, <4>2 DEF Draws, Op
    <3> QED
      BY <1>7, <3>1, <3>2 DEF Present
  <2>4. ASSUME NEW pair \in Images,
               acquired[pair] = 1 \/ \E o \in owed : o.pair = pair
        PROVE  \E i \in Draws' : queue'[i].pair = pair
    BY <2>1, <2>3, <2>4 DEF AcquiredInv
  <2> QED
    BY <2>1, <2>2, <2>4, StillAlone
<1>8. CASE UNCHANGED vars
  <2>1. UNCHANGED <<acquired, owed, queue, onScreen, SemaphoreIndex, pc, rebuild>>
    BY <1>8 DEF vars, gpu, loop
  <2> QED
    BY <2>1 DEF AcquiredInv, Held, FirstDraw, InQueue, Op, Again, Live, Draws
<1> QED
  BY <1>2, <1>3, <1>4, <1>5, <1>6, <1>7, <1>8

(* When an image is handed out with a pair whose signal is not waited for,   *)
(* every image has a present queued: this one is released after it only.     *)
LEMMA TakeAcquiredInv ==
    ASSUME FramesInv, ShowInv, TurnInv, AcquiredInv, TakeImage PROVE AcquiredInv'
<1>n. PICK n : n = [image |-> FrameIndex', pair |-> SemaphoreIndex,
                    toShow |-> InQueue("show", FrameIndex')]
  OBVIOUS
<1>0. /\ owed \subseteq [image : Images, pair : Images, toShow : BOOLEAN]
      /\ SemaphoreIndex \in Images /\ FrameIndex' \in Images
      /\ acquired \in [Images -> Nat]
  BY Types DEF TakeImage, HandOut
<1>1. /\ Live /\ pc = "acquire" /\ (Live' => pc' = "wait") /\ owed' = owed \cup {n}
      /\ UNCHANGED <<acquired, queue, onScreen, SemaphoreIndex>>
  BY <1>n DEF TakeImage, HandOut, FramesInv, RebuildInv, Live, Looping, InFrame
<1>2. n.pair = SemaphoreIndex /\ n.image = FrameIndex'
  BY <1>n
<1>3. NoneAgain
  BY <1>1, Alone
<1>4. ASSUME acquired[SemaphoreIndex] = 1 \/ \E o \in owed : o.pair = SemaphoreIndex
      PROVE  Held(n)'
  <2>1. PICK d \in Draws : queue[d].pair = SemaphoreIndex
    BY <1>0, <1>1, <1>4 DEF AcquiredInv
  <2>2. FirstDraw(SemaphoreIndex)
    BY <1>1, <2>1, FullQueue
  <2>3. PICK i \in Draws : queue[i].image = FrameIndex' /\ i + 1 \in DOMAIN queue
    BY <1>0, <1>1, <2>1, FullQueue
  <2>4. queue[i + 1].op = "show" /\ queue[i + 1].image = FrameIndex'
    <3>1. queue[i + 1] = Command("show", queue[i].image, queue[i].pair)
      BY <2>3 DEF ShowInv
    <3> QED
      BY <2>3, <3>1 DEF Command
  <2>5. InQueue("show", FrameIndex')
    BY <2>3, <2>4 DEF InQueue
  <2>6. n.toShow = TRUE
    BY <1>n, <2>5
  <2>7. FirstDraw(n.pair)' /\ InQueue("show", n.image)'
    BY <1>1, <1>2, <2>2, <2>5 DEF FirstDraw, InQueue, Op
  <2> QED
    BY <2>6, <2>7 DEF Held
<1>5. ASSUME NEW o \in owed', acquired'[o.pair] = 1
      PROVE  Held(o)' /\ Again(o.pair)'
  <2>1. o = n
    BY <1>1, <1>3, <1>5 DEF NoneAgain
  <2>2. Again(o.pair)'
    BY <1>1, <1>2, <2>1 DEF Again
  <2> QED
    BY <1>1, <1>2, <1>4, <1>5, <2>1, <2>2
<1>6. ASSUME NEW o1 \in owed', NEW o2 \in owed', o1.pair = o2.pair, o1 # o2
      PROVE  acquired'[o1.pair] = 0 /\ (Held(o1)' \/ Held(o2)') /\ Again(o1.pair)'
  <2>1. (o1 = n /\ o2 \in owed) \/ (o2 = n /\ o1 \in owed)
    BY <1>1, <1>3, <1>6 DEF NoneAgain
  <2>2. o1.pair = SemaphoreIndex /\ acquired'[o1.pair] = 0
    BY <1>1, <1>2, <1>3, <1>6, <2>1 DEF NoneAgain
  <2>3. Held(n)'
    BY <1>2, <1>4, <1>6, <2>1
  <2>4. Again(o1.pair)'
    BY <1>1, <2>2 DEF Again
  <2> QED
    BY <2>1, <2>2, <2>3, <2>4
<1>7. \A o1, o2, o3 \in owed' :
          o1.pair = o2.pair /\ o2.pair = o3.pair => o1 = o2 \/ o1 = o3 \/ o2 = o3
  BY <1>1, <1>3 DEF NoneAgain
<1>8. ASSUME Live', NEW pair \in Images,
             acquired'[pair] = 1 \/ \E o \in owed' : o.pair = pair
      PROVE  \/ \E i \in Draws' : queue'[i].pair = pair
             \/ pair = SemaphoreIndex' /\ pc' \in {"wait", "record"}
  BY <1>1, <1>2, <1>8 DEF AcquiredInv, Draws, Op
<1>9. \A pair \in Images : acquired'[pair] \in {0, 1}
  BY <1>1 DEF AcquiredInv
<1> QED
  BY <1>5, <1>6, <1>7, <1>8, <1>9 DEF AcquiredInv

(* The GPU takes the signal of the pair it waits for; a present leaves the   *)
(* image that is held back on the screen, or yet to be shown.                *)
LEMMA GpuAcquiredInv ==
    ASSUME FramesInv, AcquiredInv, GpuStep PROVE AcquiredInv'
<1>0. /\ owed \subseteq [image : Images, pair : Images, toShow : BOOLEAN]
      /\ acquired \in [Images -> Nat]
      /\ queue # <<>> /\ UNCHANGED <<pc, rebuild, SemaphoreIndex>>
      /\ Len(queue) \in Nat \ {0} /\ Len(queue') = Len(queue) - 1
      /\ DOMAIN queue = 1 .. Len(queue) /\ DOMAIN queue' = 1 .. Len(queue')
      /\ 1 \in DOMAIN queue
      /\ \A i \in 1 .. Len(queue') : queue'[i] = queue[i + 1]
      /\ Head(queue) = queue[1]
  <2>1. Len(queue) \in Nat \ {0} /\ DOMAIN queue = 1 .. Len(queue) => 1 \in DOMAIN queue
    OBVIOUS
  <2> QED
    BY <2>1, Types, GpuTail DEF loop
<1>1. CASE Upload
  <2>1. /\ Op(1) = "upload" /\ UNCHANGED <<acquired, owed>>
        /\ Len(queue) = 1 /\ pc \in {"fontsIdle", "aborted"}
    BY <1>0, <1>1 DEF Upload, Op, FramesInv, SetupInv
  <2>2. NoneAgain
    <3>1. \A pair \in Images : ~FirstDraw(pair)
      BY <1>0, <2>1 DEF FirstDraw
    <3> QED
      BY <1>0, <3>1 DEF AcquiredInv, Held, NoneAgain
  <2> QED
    BY <1>0, <2>1, <2>2, StillAlone DEF Live, Looping, InFrame
<1>2. CASE Render
  <2> DEFINE p == queue[1].pair
  <2>1. /\ Op(1) = "draw" /\ p \in Images /\ acquired[p] = 1 /\ UNCHANGED owed
        /\ acquired' = [acquired EXCEPT ![p] = @ - 1]
    <3>1. Op(1) = "draw" /\ acquired[p] > 0 /\ UNCHANGED owed
          /\ acquired' = [acquired EXCEPT ![p] = @ - 1]
      BY <1>0, <1>2 DEF Render, Op
    <3>2. p \in Images
      BY <1>0, <3>1, Types
    <3>3. acquired[p] \in {0, 1}
      BY <3>2 DEF AcquiredInv
    <3> QED
      BY <3>1, <3>2, <3>3
  <2> HIDE DEF p
  <2>2. \A pair \in Images : acquired'[pair] = IF pair = p THEN 0 ELSE acquired[pair]
    BY <1>0, <2>1
  <2>3. \A pair \in Images : FirstDraw(pair) => pair = p
    BY <2>1 DEF FirstDraw, p
  <2>4. \A o \in owed : acquired'[o.pair] = 0
    BY <1>0, <2>2, <2>3 DEF AcquiredInv, Held
  <2>5. \A o1, o2 \in owed : o1.pair = o2.pair => o1 = o2
    BY <1>0, <2>1, <2>3 DEF AcquiredInv, Held
  <2>6. ASSUME Live', NEW pair \in Images,
               acquired'[pair] = 1 \/ \E o \in owed' : o.pair = pair
        PROVE  \/ \E i \in Draws' : queue'[i].pair = pair
               \/ pair = SemaphoreIndex' /\ pc' \in {"wait", "record"}
    <3>1. Live
      BY <1>0, <2>6 DEF Live
    <3>2. CASE pair = p
      <4>1. PICK o \in owed : o.pair = p
        BY <2>1, <2>2, <2>6, <3>2
      <4>2. Again(p)
        BY <2>1, <4>1 DEF AcquiredInv
      <4> QED
        BY <1>0, <3>1, <3>2, <4>2 DEF Again
    <3>3. CASE pair # p
      <4>1. CASE \E i \in Draws : queue[i].pair = pair
        <5>1. PICK i \in Draws : queue[i].pair = pair
          BY <4>1
        <5>2. i \in 1 .. Len(queue) /\ i # 1 /\ Op(i) = "draw"
          BY <1>0, <3>3, <5>1 DEF Draws, p
        <5>3. i - 1 \in 1 .. Len(queue') /\ queue'[i - 1] = queue[i]
          BY <1>0, <5>2
        <5> QED
          BY <1>0, <5>1, <5>2, <5>3 DEF Draws, Op
      <4>2. CASE ~ \E i \in Draws : queue[i].pair = pair
        BY <1>0, <2>1, <2>2, <2>6, <3>1, <3>3, <4>2 DEF AcquiredInv
      <4> QED
        BY <4>1, <4>2
    <3> QED
      BY <3>2, <3>3
  <2>7. \A pair \in Images : acquired'[pair] \in {0, 1}
    BY <2>2 DEF AcquiredInv
  <2> QED
    BY <2>1, <2>4, <2>5, <2>6, <2>7 DEF AcquiredInv
<1>3. CASE Show
  <2> DEFINE m == queue[1].image
             Shown(o) == [o EXCEPT !.toShow = @ /\ o.image # m]
  <2>1. /\ Op(1) = "show" /\ UNCHANGED acquired
        /\ onScreen' = m /\ owed' = {Shown(o) : o \in owed}
    BY <1>0, <1>3 DEF Show, Op
  <2>2. \A o \in owed :
            /\ Shown(o).image = o.image /\ Shown(o).pair = o.pair
            /\ o.toShow = TRUE /\ o.image # m => Shown(o).toShow = TRUE
    BY <1>0
  <2> HIDE DEF Shown
  <2>3. ASSUME NEW o \in owed, Held(o), NEW s, s = Shown(o)
        PROVE  Held(s)'
    <3>1. /\ 2 \in DOMAIN queue /\ Op(2) = "draw" /\ queue[2].pair = o.pair
          /\ o.toShow /\ InQueue("show", o.image)
      BY <2>1, <2>3 DEF Held, FirstDraw
    <3>2. /\ 1 \in DOMAIN queue' /\ queue'[1] = queue[2] /\ Op(1)' = "draw"
          /\ queue'[1].pair = o.pair
      BY <1>0, <3>1 DEF Op
    <3>3. FirstDraw(s.pair)'
      BY <2>2, <2>3, <3>2 DEF FirstDraw
    <3>4. CASE o.image = m
      BY <2>1, <2>2, <2>3, <3>2, <3>3, <3>4 DEF Held
    <3>5. CASE o.image # m
      <4>1. o.toShow = TRUE
        BY <1>0, <3>1
      <4>2. PICK i \in DOMAIN queue : queue[i].op = "show" /\ queue[i].image = o.image
        BY <3>1 DEF InQueue
      <4>3. i - 1 \in DOMAIN queue' /\ queue'[i - 1] = queue[i]
        BY <1>0, <3>5, <4>2 DEF m
      <4>4. InQueue("show", s.image)'
        BY <2>2, <2>3, <4>2, <4>3 DEF InQueue
      <4> QED
        BY <2>2, <2>3, <3>3, <3>5, <4>1, <4>4 DEF Held
    <3> QED
      BY <3>4, <3>5
  <2>4. \A pair : Again(pair)' = Again(pair)
    BY <1>0 DEF Again, Live
  <2>5. ASSUME NEW s \in owed', acquired'[s.pair] = 1
        PROVE  Held(s)' /\ Again(s.pair)'
    <3>1. PICK o \in owed : s = Shown(o)
      BY <2>1
    <3>2. Held(o) /\ Again(o.pair)
      BY <2>1, <2>2, <2>5, <3>1 DEF AcquiredInv
    <3> QED
      BY <2>2, <2>3, <2>4, <3>1, <3>2
  <2>6. ASSUME NEW s1 \in owed', NEW s2 \in owed', s1.pair = s2.pair, s1 # s2
        PROVE  acquired'[s1.pair] = 0 /\ (Held(s1)' \/ Held(s2)') /\ Again(s1.pair)'
    <3>1. PICK o1 \in owed : s1 = Shown(o1)
      BY <2>1
    <3>2. PICK o2 \in owed : s2 = Shown(o2)
      BY <2>1
    <3>3. acquired[o1.pair] = 0 /\ (Held(o1) \/ Held(o2)) /\ Again(o1.pair)
      BY <2>2, <2>6, <3>1, <3>2 DEF AcquiredInv
    <3> QED
      BY <2>1, <2>2, <2>3, <2>4, <3>1, <3>2, <3>3
  <2>7. \A o1, o2, o3 \in owed' :
            o1.pair = o2.pair /\ o2.pair = o3.pair => o1 = o2 \/ o1 = o3 \/ o2 = o3
    BY <2>1, <2>2 DEF AcquiredInv
  <2>8. ASSUME Live', NEW pair \in Images,
               acquired'[pair] = 1 \/ \E o \in owed' : o.pair = pair
        PROVE  \/ \E i \in Draws' : queue'[i].pair = pair
               \/ pair = SemaphoreIndex' /\ pc' \in {"wait", "record"}
    <3>1. Live /\ (acquired[pair] = 1 \/ \E o \in owed : o.pair = pair)
      BY <1>0, <2>1, <2>2, <2>8 DEF Live
    <3>2. CASE \E i \in Draws : queue[i].pair = pair
      <4>1. PICK i \in Draws : queue[i].pair = pair
        BY <3>2
      <4>2. i \in 1 .. Len(queue) /\ i # 1 /\ Op(i) = "draw"
        BY <1>0, <2>1, <4>1 DEF Draws
      <4>3. i - 1 \in 1 .. Len(queue') /\ queue'[i - 1] = queue[i]
        BY <1>0, <4>2
      <4> QED
        BY <1>0, <4>1, <4>2, <4>3 DEF Draws, Op
    <3> QED
      BY <1>0, <3>1, <3>2 DEF AcquiredInv
  <2>9. \A pair \in Images : acquired'[pair] \in {0, 1}
    BY <2>1 DEF AcquiredInv
  <2> QED
    BY <2>5, <2>6, <2>7, <2>8, <2>9 DEF AcquiredInv
<1> QED
  BY <1>1, <1>2, <1>3 DEF GpuStep

(* The display signals a pair only whose last signal has been taken.         *)
LEMMA ReleaseAcquiredInv ==
    ASSUME FramesInv, AcquiredInv, Release PROVE AcquiredInv'
<1>0. /\ owed \subseteq [image : Images, pair : Images, toShow : BOOLEAN]
      /\ acquired \in [Images -> Nat]
  BY Types
<1>1. PICK r \in owed :
          /\ ~r.toShow /\ r.image # onScreen
          /\ acquired' = [acquired EXCEPT ![r.pair] = @ + 1]
          /\ owed' = owed \ {r}
  BY DEF Release, Add
<1>2. ~Held(r)
  BY <1>1 DEF Held
<1>3. r.pair \in Images /\ acquired[r.pair] = 0
  BY <1>0, <1>2 DEF AcquiredInv
<1>4. \A pair \in Images : acquired'[pair] = IF pair = r.pair THEN 1 ELSE acquired[pair]
  BY <1>0, <1>1, <1>3
<1>5. UNCHANGED <<pc, rebuild, SemaphoreIndex, queue, onScreen>>
  BY DEF Release, loop
<1>6. \A o : Held(o)' = Held(o) /\ Again(o.pair)' = Again(o.pair)
  BY <1>5 DEF Held, FirstDraw, InQueue, Op, Again, Live
<1>7. ASSUME NEW o \in owed', acquired'[o.pair] = 1
      PROVE  Held(o)' /\ Again(o.pair)'
  BY <1>0, <1>1, <1>2, <1>4, <1>6, <1>7 DEF AcquiredInv
<1>8. ASSUME NEW o1 \in owed', NEW o2 \in owed', o1.pair = o2.pair, o1 # o2
      PROVE  acquired'[o1.pair] = 0 /\ (Held(o1)' \/ Held(o2)') /\ Again(o1.pair)'
  <2>1. o1.pair # r.pair
    BY <1>1, <1>8 DEF AcquiredInv
  <2>2. acquired[o1.pair] = 0 /\ (Held(o1) \/ Held(o2)) /\ Again(o1.pair)
    BY <1>1, <1>8 DEF AcquiredInv
  <2> QED
    BY <1>0, <1>1, <1>4, <1>6, <2>1, <2>2
<1>9. \A o1, o2, o3 \in owed' :
          o1.pair = o2.pair /\ o2.pair = o3.pair => o1 = o2 \/ o1 = o3 \/ o2 = o3
  BY <1>1 DEF AcquiredInv
<1>10. ASSUME Live', NEW pair \in Images,
              acquired'[pair] = 1 \/ \E o \in owed' : o.pair = pair
       PROVE  \/ \E i \in Draws' : queue'[i].pair = pair
              \/ pair = SemaphoreIndex' /\ pc' \in {"wait", "record"}
  <2>1. Live /\ (acquired[pair] = 1 \/ \E o \in owed : o.pair = pair)
    BY <1>1, <1>4, <1>5, <1>10 DEF Live
  <2> QED
    BY <1>5, <2>1 DEF AcquiredInv, Draws, Op
<1>11. \A pair \in Images : acquired'[pair] \in {0, 1}
  BY <1>4 DEF AcquiredInv
<1> QED
  BY <1>7, <1>8, <1>9, <1>10, <1>11 DEF AcquiredInv

(* Nothing is signalled when the program starts. *)
LEMMA InitSemaphoreInv == Init => SemaphoreInv
<1> SUFFICES ASSUME Init PROVE SemaphoreInv
  OBVIOUS
<1>1. FramesInv
  BY InitFramesInv
<1>2. Draws = {} /\ ~Live
  BY DEF Init, Draws, Live, Looping, InFrame
<1>3. ShowInv /\ TurnInv
  BY <1>2 DEF ShowInv, TurnInv
<1>4. RenderedInv
  BY DEF Init, RenderedInv
<1>5. AcquiredInv
  BY DEF Init, AcquiredInv
<1> QED
  BY <1>1, <1>3, <1>4, <1>5 DEF SemaphoreInv

(* Every step keeps what the semaphores rest on. *)
LEMMA NextSemaphoreInv == SemaphoreInv /\ [Next]_vars => SemaphoreInv'
<1> SUFFICES ASSUME SemaphoreInv, [Next]_vars PROVE SemaphoreInv'
  OBVIOUS
<1>1. FramesInv /\ ShowInv /\ TurnInv /\ RenderedInv /\ AcquiredInv
  BY DEF SemaphoreInv
<1>2. AcquiredInv'
  BY <1>1, StepsOfNext, LoopAcquiredInv, TakeAcquiredInv, GpuAcquiredInv,
     ReleaseAcquiredInv DEF GpuStep
<1>3. FramesInv' /\ ShowInv' /\ TurnInv' /\ RenderedInv'
  BY <1>1, NextFramesInv, NextShowInv, NextTurnInv, NextRenderedInv
<1> QED
  BY <1>2, <1>3 DEF SemaphoreInv

(* In every behaviour, however many images there are and in whatever order   *)
(* the display hands them out, no semaphore of FrameRender or FramePresent   *)
(* is signalled twice before it is waited for.                               *)
THEOREM SignalledOnce == Spec => []SemaphoresSignalledOnce
<1>1. SemaphoreInv => SemaphoresSignalledOnce
  BY DEF SemaphoreInv, RenderedInv, AcquiredInv, SemaphoresSignalledOnce
<1> QED
  BY <1>1, InitSemaphoreInv, NextSemaphoreInv, PTL DEF Spec

-------------------------------------------------------------------------------
(* Nobody waits in vain.  The GUI thread waits for a fence that the GPU will *)
(* signal, and the GPU for a semaphore that the draw before it has signalled *)
(* or that the display signals by itself.                                    *)
FenceComes == pc = "wait" => FrameIndex \in fence \/ InQueue("draw", FrameIndex)

GpuGoesOn ==
    queue # <<>> =>
        \/ Op(1) = "upload"
        \/ Op(1) = "show" /\ rendered[queue[1].pair] > 0
        \/ /\ Op(1) = "draw"
           /\ \/ acquired[queue[1].pair] > 0
              \/ \E o \in owed : o.pair = queue[1].pair /\ ~o.toShow /\ o.image # onScreen

NobodyHangs == FenceComes /\ GpuGoesOn

(* A fence that is not signalled has a draw: in the queue, or about to be.   *)
FencesInv ==
    pc # "aborted" =>
        \A image \in Images :
            \/ image \in fence
            \/ InQueue("draw", image)
            \/ pc = "record" /\ image = FrameIndex

(* The draws in the queue have different pairs. *)
PairsInv == \A i, j \in Draws : queue[i].pair = queue[j].pair => i = j

(* No image is drawn while it is shown: the one on the screen, or presented  *)
(* right before, is another one, for the display does not hand out the       *)
(* image that was presented last.                                            *)
ScreenInv ==
    /\ pc \in Preparing => onScreen = NoImage /\ presented = NoImage
    /\ pc \in {"wait", "record"} => FrameIndex # presented
    /\ Live => IF End >= 1 THEN queue[End].image = presented ELSE onScreen = presented
    /\ \A i \in Draws :
           IF i = 1 THEN queue[i].image # onScreen
           ELSE Op(i - 1) = "show" /\ queue[i - 1].image # queue[i].image

(* The draw before a present, which signals what the present waits for, is   *)
(* in the queue still or has done so.                                        *)
CompleteInv ==
    /\ \A i \in DOMAIN queue :
           Op(i) = "show" =>
               IF i = 1 THEN rendered[queue[i].pair] = 1 ELSE Op(i - 1) = "draw"
    /\ Live /\ pc = "present" /\ queue = <<>> => rendered[SemaphoreIndex] = 1

(* A signal that the display owes and will give, once what is in front of    *)
(* the draw at i, or in the queue, is shown.                                 *)
Awaited(o, i) ==
    /\ o.pair = queue[i].pair /\ o.image = queue[i].image
    /\ o.toShow => \E j \in 1 .. i - 1 : Op(j) = "show" /\ queue[j].image = o.image

Fresh(o) ==
    /\ o.pair = SemaphoreIndex /\ o.image = FrameIndex
    /\ o.toShow => InQueue("show", FrameIndex)

(* Every draw in the queue has its signal, given or owed, and the frame that *)
(* is made has one that is not the one of an earlier draw with its pair.     *)
Taken == \E i \in Draws : queue[i].pair = SemaphoreIndex

Another(o) ==
    \/ acquired[SemaphoreIndex] = 1
    \/ \E i \in Draws, other \in owed \ {o} :
           queue[i].pair = SemaphoreIndex /\ Awaited(other, i)

SupplyInv ==
    /\ \A i \in Draws : acquired[queue[i].pair] = 1 \/ \E o \in owed : Awaited(o, i)
    /\ pc \in {"wait", "record"} /\ ~Taken =>
           acquired[SemaphoreIndex] = 1 \/ \E o \in owed : Fresh(o)
    /\ pc \in {"wait", "record"} /\ Taken =>
           \E o \in owed : Fresh(o) /\ Another(o)

(* The inductive invariant for what is waited for. *)
WaitInv ==
    SemaphoreInv /\ FencesInv /\ PairsInv /\ ScreenInv /\ CompleteInv /\ SupplyInv

(* What the GPU has not executed moves forward by one place. *)
LEMMA Shift ==
    ASSUME FramesInv, GpuStep
    PROVE  /\ \A i \in DOMAIN queue' : i + 1 \in DOMAIN queue /\ queue'[i] = queue[i + 1]
           /\ \A i \in DOMAIN queue : i # 1 => i - 1 \in DOMAIN queue' /\ queue'[i - 1] = queue[i]
           /\ \A i \in Draws' : i \in Nat \ {0} /\ i + 1 \in Draws /\ queue'[i] = queue[i + 1]
           /\ \A i \in Draws : i # 1 => i - 1 \in Draws'
           /\ 1 \in DOMAIN queue
           /\ UNCHANGED <<pc, run, window, rebuild, FrameIndex, SemaphoreIndex, presented>>
<1>1. /\ queue # <<>> /\ UNCHANGED <<pc, loop, presented>>
      /\ Len(queue) \in Nat \ {0} /\ Len(queue') = Len(queue) - 1
      /\ DOMAIN queue = 1 .. Len(queue) /\ DOMAIN queue' = 1 .. Len(queue')
      /\ \A i \in 1 .. Len(queue') : queue'[i] = queue[i + 1]
  BY GpuTail
<1>2. \A i \in DOMAIN queue' : i \in Nat \ {0} /\ i + 1 \in DOMAIN queue /\ queue'[i] = queue[i + 1]
  BY <1>1
<1>3. ASSUME NEW i \in DOMAIN queue, i # 1
      PROVE  i - 1 \in DOMAIN queue' /\ queue'[i - 1] = queue[i]
  BY <1>1, <1>3
<1>4. 1 \in DOMAIN queue
  BY <1>1
<1> QED
  BY <1>1, <1>2, <1>3, <1>4 DEF Draws, Op, loop

(* What the GUI thread submits stands behind everything else. *)
LEMMA Grow ==
    ASSUME FramesInv, NEW c \in Commands, queue' = Append(queue, c)
    PROVE  /\ Len(queue) \in Nat /\ Len(queue') = Len(queue) + 1
           /\ DOMAIN queue = 1 .. Len(queue) /\ DOMAIN queue' = 1 .. Len(queue) + 1
           /\ \A i \in DOMAIN queue : queue'[i] = queue[i]
           /\ queue'[Len(queue) + 1] = c
           /\ queue = <<>> <=> Len(queue) = 0
           /\ \A i \in Draws' : i \in Draws \/ (i = Len(queue) + 1 /\ c.op = "draw")
           /\ Draws \subseteq Draws'
           /\ c.op = "draw" => Len(queue) + 1 \in Draws'
           /\ \A op, image : InQueue(op, image) => InQueue(op, image)'
           /\ InQueue(c.op, c.image)'
<1>1. /\ Len(queue) \in Nat /\ Len(queue') = Len(queue) + 1
      /\ DOMAIN queue = 1 .. Len(queue) /\ DOMAIN queue' = 1 .. Len(queue')
      /\ \A i \in 1 .. Len(queue) : queue'[i] = queue[i]
      /\ queue'[Len(queue')] = c
      /\ queue = <<>> <=> Len(queue) = 0
  BY Submit, Types
<1>2. /\ \A i \in DOMAIN queue : i \in DOMAIN queue' /\ queue'[i] = queue[i]
      /\ \A i \in DOMAIN queue' : i \in DOMAIN queue \/ i = Len(queue) + 1
      /\ Len(queue) + 1 \in DOMAIN queue' /\ queue'[Len(queue) + 1] = c
  BY <1>1
<1> QED
  BY <1>1, <1>2 DEF Draws, Op, InQueue

(* The commands that the GUI thread submits in a frame, which is then live.  *)
LEMMA FrameCommands ==
    ASSUME FramesInv
    PROVE  /\ Command("draw", FrameIndex, SemaphoreIndex) \in Commands
           /\ Command("draw", FrameIndex, SemaphoreIndex).op = "draw"
           /\ Command("draw", FrameIndex, SemaphoreIndex).image = FrameIndex
           /\ Command("draw", FrameIndex, SemaphoreIndex).pair = SemaphoreIndex
           /\ Command("show", FrameIndex, SemaphoreIndex) \in Commands
           /\ Command("show", FrameIndex, SemaphoreIndex).op = "show"
           /\ Command("show", FrameIndex, SemaphoreIndex).image = FrameIndex
           /\ Command("show", FrameIndex, SemaphoreIndex).pair = SemaphoreIndex
           /\ pc \in InFrame => Live
BY DEF FramesInv, TypeOK, Command, Commands, RebuildInv, Live, Looping

(* The fonts are uploaded before anything is drawn, and the loop starts when *)
(* they are.                                                                 *)
LEMMA UploadAlone ==
    ASSUME FramesInv, UploadFonts \/ Upload
    PROVE  /\ Draws = {} /\ Draws' = {} /\ ~Live' /\ pc' # "record" /\ pc' # "wait"
           /\ UNCHANGED <<fence, acquired, rendered, owed, onScreen, presented, FrameIndex>>
           /\ \A i \in DOMAIN queue' : queue'[i].op = "upload"
           /\ pc' \in Preparing => pc \in Preparing
           /\ pc' # "aborted" => pc # "aborted"
           /\ pc # "record"
<1>1. CASE UploadFonts
  <2>1. queue = <<>> /\ DOMAIN queue = {}
    BY <1>1, Types DEF UploadFonts, FramesInv, SetupInv, Preparing
  <2>2. Command("upload", FrameIndex, NoImage) \in Commands
        /\ Command("upload", FrameIndex, NoImage).op = "upload"
    BY Types DEF Command, Commands
  <2>3. DOMAIN queue' = 1 .. 1 /\ queue'[1].op = "upload"
    BY <1>1, <2>1, <2>2, Grow DEF UploadFonts
  <2> QED
    BY <1>1, <2>1, <2>3 DEF UploadFonts, Draws, Op, Live, Looping, InFrame, Preparing, loop
<1>2. CASE Upload
  <2>1. GpuStep /\ Op(1) = "upload"
    BY <1>2, GpuTail DEF Upload, GpuStep, Op
  <2>2. 1 \in DOMAIN queue /\ Len(queue) = 1 /\ pc \in {"fontsIdle", "aborted"}
    BY <2>1, Shift DEF FramesInv, SetupInv
  <2>3. DOMAIN queue = {1} /\ DOMAIN queue' = {}
    BY <2>1, <2>2, GpuTail
  <2> QED
    BY <1>2, <2>1, <2>2, <2>3 DEF Upload, Draws, Op, Live, Looping, InFrame, Preparing, loop
<1> QED
  BY <1>1, <1>2

(* Every step keeps a draw for each fence that is not signalled. *)
LEMMA NextFencesInv ==
    ASSUME FramesInv, FencesInv, [Next]_vars PROVE FencesInv'
<1> SUFFICES ASSUME pc' # "aborted", NEW image \in Images
             PROVE  \/ image \in fence'
                    \/ InQueue("draw", image)'
                    \/ pc' = "record" /\ image = FrameIndex'
  BY DEF FencesInv
<1>1. CASE Idle
  <2>1. UNCHANGED <<fence, queue>> /\ pc # "aborted" /\ pc # "record"
    BY <1>1, IdleStep DEF gpu
  <2> QED
    BY <2>1 DEF FencesInv, InQueue
<1>2. CASE Recreate
  BY <1>2 DEF Recreate, Resize, CreateOrResizeWindow
<1>3. CASE UploadFonts \/ Upload
  <2>1. UNCHANGED fence /\ pc # "aborted" /\ pc # "record" /\ Draws = {}
    BY <1>3, UploadAlone
  <2> QED
    BY <2>1 DEF FencesInv, InQueue, Draws, Op
<1>4. CASE TakeImage \/ Release \/ UNCHANGED vars
  <2>1. UNCHANGED <<fence, queue>> /\ pc # "aborted"
        /\ (pc = "record" => pc' = "record" /\ UNCHANGED FrameIndex)
    BY <1>4 DEF TakeImage, Release, vars, loop, gpu
  <2> QED
    BY <2>1 DEF FencesInv, InQueue
<1>5. CASE WaitForFence
  BY <1>5 DEF WaitForFence, FencesInv, InQueue, loop
<1>6. CASE RecordAndSubmit
  <2>1. UNCHANGED fence /\ pc = "record"
        /\ queue' = Append(queue, Command("draw", FrameIndex, SemaphoreIndex))
    BY <1>6 DEF RecordAndSubmit
  <2>2. InQueue("draw", FrameIndex)' /\ (InQueue("draw", image) => InQueue("draw", image)')
    <3>1. \A op, m : InQueue(op, m) => InQueue(op, m)'
      BY <2>1, Grow, FrameCommands
    <3>2. InQueue("draw", FrameIndex)' <=> \E i \in DOMAIN queue' :
              queue'[i].op = "draw" /\ queue'[i].image = FrameIndex'
      BY DEF InQueue
    <3>3. \E i \in DOMAIN queue' : queue'[i].op = "draw" /\ queue'[i].image = FrameIndex
      BY <2>1, Grow, FrameCommands DEF InQueue
    <3> QED
      BY <1>6, <3>1, <3>2, <3>3 DEF RecordAndSubmit, loop
  <2> QED
    BY <1>6, <2>1, <2>2 DEF FencesInv, RecordAndSubmit, loop
<1>7. CASE Present
  <2>1. UNCHANGED fence /\ pc = "present"
    BY <1>7 DEF Present
  <2>2. InQueue("draw", image) => InQueue("draw", image)'
    <3>1. CASE UNCHANGED queue
      BY <3>1 DEF InQueue
    <3>2. CASE queue' = Append(queue, Command("show", FrameIndex, SemaphoreIndex))
      BY <3>2, Grow, FrameCommands
    <3> QED
      BY <1>7, <3>1, <3>2 DEF Present
  <2> QED
    BY <2>1, <2>2 DEF FencesInv
<1>8. CASE Render \/ Show
  <2>1. /\ UNCHANGED <<pc, FrameIndex>> /\ fence \subseteq fence'
        /\ Op(1) = "draw" => queue[1].image \in fence'
    BY <1>8, GpuTail DEF GpuStep, Render, Show, Op, loop
  <2>2. ASSUME InQueue("draw", image)
        PROVE  image \in fence' \/ InQueue("draw", image)'
    <3>1. PICK i \in DOMAIN queue : queue[i].op = "draw" /\ queue[i].image = image
      BY <2>2 DEF InQueue
    <3>2. i # 1 => i - 1 \in DOMAIN queue' /\ queue'[i - 1] = queue[i]
      BY <1>8, <3>1, Shift DEF GpuStep
    <3> QED
      BY <2>1, <3>1, <3>2 DEF InQueue, Op
  <2> QED
    BY <2>1, <2>2 DEF FencesInv
<1> QED
  BY <1>1, <1>2, <1>3, <1>4, <1>5, <1>6, <1>7, <1>8, StepsOfNext

(* Every step keeps the pairs of the draws different. *)
LEMMA NextPairsInv ==
    ASSUME FramesInv, TurnInv, PairsInv, [Next]_vars PROVE PairsInv'
<1>1. CASE UNCHANGED queue
  BY <1>1 DEF PairsInv, Draws, Op
<1>2. CASE Recreate
  <2>1. UNCHANGED queue
    BY <1>2 DEF Recreate, Resize, CreateOrResizeWindow
  <2> QED
    BY <1>1, <2>1
<1>3. CASE UploadFonts \/ Upload
  BY <1>3, UploadAlone DEF PairsInv
<1>4. CASE RecordAndSubmit
  <2>1. /\ queue' = Append(queue, Command("draw", FrameIndex, SemaphoreIndex))
        /\ Live /\ pc # "present" /\ ~InQueue("draw", FrameIndex)
    BY <1>4, FrameCommands DEF RecordAndSubmit, InFrame, FramesInv, FenceInv
  <2>2. \A i \in Draws : queue[i].pair # SemaphoreIndex
    BY <2>1, PairIsFree
  <2>3. /\ queue'[Len(queue) + 1].pair = SemaphoreIndex
        /\ \A i \in Draws' : i \in Draws \/ i = Len(queue) + 1
        /\ \A i \in Draws : queue'[i] = queue[i]
    BY <2>1, Grow, FrameCommands DEF Draws
  <2> QED
    BY <2>2, <2>3 DEF PairsInv
<1>5. CASE Present
  <2>1. CASE queue' = Append(queue, Command("show", FrameIndex, SemaphoreIndex))
    <3>1. /\ \A i \in Draws' : i \in Draws
          /\ \A i \in Draws : queue'[i] = queue[i]
      BY <2>1, Grow, FrameCommands DEF Draws
    <3> QED
      BY <3>1 DEF PairsInv
  <2> QED
    BY <1>1, <1>5, <2>1 DEF Present
<1>6. CASE Render \/ Show
  <2>1. \A i \in Draws' : i \in Nat /\ i + 1 \in Draws /\ queue'[i] = queue[i + 1]
    BY <1>6, Shift DEF GpuStep
  <2> SUFFICES ASSUME NEW i \in Draws', NEW j \in Draws', queue'[i].pair = queue'[j].pair
               PROVE  i = j
    BY DEF PairsInv
  <2>2. i \in Nat /\ j \in Nat /\ i + 1 = j + 1
    BY <2>1 DEF PairsInv
  <2> QED
    BY <2>2
<1>7. CASE Idle \/ TakeImage \/ WaitForFence \/ Release \/ UNCHANGED vars
  <2>1. UNCHANGED queue
    BY <1>7, IdleStep DEF TakeImage, WaitForFence, Release, vars, gpu
  <2> QED
    BY <1>1, <2>1
<1> QED
  BY <1>2, <1>3, <1>4, <1>5, <1>6, <1>7, StepsOfNext

(* The steps that leave the queue and the screen alone. *)
LEMMA SameScreen ==
    ASSUME FramesInv, ScreenInv, UNCHANGED <<queue, onScreen, presented>>,
           pc' \in Preparing => pc \in Preparing,
           pc' \in {"wait", "record"} => FrameIndex' # presented,
           Live' => Live /\ pc # "present" /\ pc' # "present"
    PROVE  ScreenInv'
<1>1. Live' => Live /\ End' = End
  BY DEF End
<1> QED
  BY <1>1 DEF ScreenInv, Draws, Op

(* Every step keeps an image from being drawn while it is shown. *)
LEMMA NextScreenInv ==
    ASSUME FramesInv, TurnInv, ScreenInv, [Next]_vars PROVE ScreenInv'
<1>0. /\ Len(queue) \in Nat /\ DOMAIN queue = 1 .. Len(queue)
      /\ queue = <<>> <=> Len(queue) = 0
      /\ FrameIndex \in Images
  BY Types
<1>1. CASE Idle
  <2>1. /\ UNCHANGED <<queue, onScreen, presented, FrameIndex>>
        /\ pc' \in Preparing => pc \in Preparing
        /\ pc' \notin {"wait", "record", "present"}
        /\ Live' => (Live /\ pc # "present") \/ (pc = "fontsIdle" /\ queue = <<>>)
    BY <1>1, IdleStep DEF gpu
  <2>2. CASE Live' => Live /\ pc # "present"
    BY <2>1, <2>2, SameScreen
  <2>3. CASE pc = "fontsIdle" /\ queue = <<>>
    <3>1. onScreen' = presented' /\ ~(End' >= 1) /\ Draws' = {}
      BY <1>0, <2>1, <2>3 DEF ScreenInv, Preparing, End, Draws
    <3> QED
      BY <2>1, <3>1 DEF ScreenInv
  <2> QED
    BY <2>1, <2>2, <2>3
<1>2. CASE Recreate
  <2>1. /\ queue' = <<>> /\ onScreen' = NoImage /\ presented' = NoImage /\ pc' = "draw"
    BY <1>2 DEF Recreate, Resize, CreateOrResizeWindow
  <2>2. ~(End' >= 1) /\ Draws' = {}
    BY <2>1, <1>0 DEF End, Draws
  <2> QED
    BY <2>1, <2>2 DEF ScreenInv
<1>3. CASE UploadFonts \/ Upload
  <2>1. /\ UNCHANGED <<onScreen, presented>> /\ Draws' = {} /\ ~Live'
        /\ pc' \notin {"wait", "record"} /\ (pc' \in Preparing => pc \in Preparing)
    BY <1>3, UploadAlone
  <2> QED
    BY <2>1 DEF ScreenInv
<1>4. CASE TakeImage
  BY <1>4, SameScreen, FrameCommands DEF TakeImage, HandOut, InFrame, Preparing
<1>5. CASE WaitForFence
  BY <1>5, SameScreen, FrameCommands DEF WaitForFence, InFrame, Preparing, ScreenInv, loop
<1>6. CASE RecordAndSubmit
  <2>1. /\ queue' = Append(queue, Command("draw", FrameIndex, SemaphoreIndex))
        /\ pc = "record" /\ pc' = "present" /\ UNCHANGED <<onScreen, presented>>
        /\ Live /\ FrameIndex # presented
    BY <1>6, FrameCommands DEF RecordAndSubmit, InFrame, ScreenInv
  <2>2. /\ Len(queue') = Len(queue) + 1
        /\ \A i \in DOMAIN queue : queue'[i] = queue[i]
        /\ queue'[Len(queue) + 1].image = FrameIndex
        /\ \A i \in Draws' : i \in Draws \/ i = Len(queue) + 1
    BY <2>1, Grow, FrameCommands
  <2>3. End = Len(queue) /\ End' = Len(queue)
    BY <1>0, <2>1, <2>2 DEF End
  <2>4. IF End' >= 1 THEN queue'[End'].image = presented' ELSE onScreen' = presented'
    BY <1>0, <2>1, <2>2, <2>3 DEF ScreenInv
  <2>5. ASSUME NEW i \in Draws'
        PROVE  IF i = 1 THEN queue'[i].image # onScreen'
               ELSE Op(i - 1)' = "show" /\ queue'[i - 1].image # queue'[i].image
    <3>1. CASE i \in Draws
      <4>1. i \in DOMAIN queue /\ (i # 1 => i - 1 \in DOMAIN queue)
        BY <1>0, <3>1 DEF Draws
      <4> QED
        BY <2>1, <2>2, <3>1, <4>1 DEF ScreenInv, Op
    <3>2. CASE i = Len(queue) + 1 /\ queue = <<>>
      BY <1>0, <2>1, <2>2, <2>3, <3>2 DEF ScreenInv
    <3>3. CASE i = Len(queue) + 1 /\ queue # <<>>
      <4>1. i # 1 /\ i - 1 = Len(queue) /\ Len(queue) \in DOMAIN queue
        BY <1>0, <3>3
      <4>2. Op(Len(queue)) = "show" /\ queue[Len(queue)].image = presented
        BY <1>0, <2>1, <2>3, <3>3, LastIsShown DEF ScreenInv
      <4> QED
        BY <2>1, <2>2, <3>3, <4>1, <4>2 DEF Op
    <3> QED
      BY <2>2, <3>1, <3>2, <3>3
  <2> QED
    BY <2>1, <2>4, <2>5 DEF ScreenInv, Preparing
<1>7. CASE Present
  <2>1. pc = "present" /\ pc' = "poll" /\ UNCHANGED onScreen
    BY <1>7 DEF Present
  <2>2. CASE /\ queue' = Append(queue, Command("show", FrameIndex, SemaphoreIndex))
             /\ presented' = FrameIndex
    <3>1. /\ Len(queue') = Len(queue) + 1
          /\ \A i \in DOMAIN queue : queue'[i] = queue[i]
          /\ queue'[Len(queue) + 1].image = FrameIndex
          /\ \A i \in Draws' : i \in Draws
      BY <2>2, Grow, FrameCommands
    <3>2. End' = Len(queue) + 1 /\ End' >= 1
      BY <1>0, <2>1, <3>1 DEF End
    <3>3. ASSUME NEW i \in Draws'
          PROVE  IF i = 1 THEN queue'[i].image # onScreen'
                 ELSE Op(i - 1)' = "show" /\ queue'[i - 1].image # queue'[i].image
      <4>1. i \in Draws /\ i \in DOMAIN queue /\ (i # 1 => i - 1 \in DOMAIN queue)
        BY <1>0, <3>1, <3>3 DEF Draws
      <4> QED
        BY <2>1, <3>1, <4>1 DEF ScreenInv, Op
    <3> QED
      BY <2>1, <2>2, <3>1, <3>2, <3>3 DEF ScreenInv, Preparing
  <2>3. CASE rebuild' = TRUE /\ UNCHANGED <<queue, presented>>
    BY <2>1, <2>3, SameScreen DEF Live, Preparing
  <2> QED
    BY <1>7, <2>2, <2>3 DEF Present
<1>8. CASE Render \/ Show
  <2>1. /\ Len(queue') = Len(queue) - 1 /\ Len(queue) >= 1
        /\ UNCHANGED <<pc, presented, FrameIndex>> /\ (Live' => Live)
        /\ \A i \in DOMAIN queue' : i + 1 \in DOMAIN queue /\ queue'[i] = queue[i + 1]
        /\ \A i \in Draws' : i \in Nat \ {0} /\ i + 1 \in Draws /\ queue'[i] = queue[i + 1]
        /\ DOMAIN queue' = 1 .. Len(queue')
    BY <1>8, Shift, GpuTail DEF GpuStep, Live
  <2>2. \/ Op(1) = "draw" /\ onScreen' = onScreen
        \/ Op(1) = "show" /\ onScreen' = queue[1].image
    <3>1. Head(queue) = queue[1]
      BY <1>8, GpuTail DEF GpuStep
    <3>2. CASE Render
      BY <3>1, <3>2 DEF Render, Op
    <3>3. CASE Show
      BY <3>1, <3>3 DEF Show, Op
    <3> QED
      BY <1>8, <3>2, <3>3
  <2>3. pc \notin Preparing
    BY <1>0, <2>1, <2>2 DEF FramesInv, SetupInv, Preparing
  <2>4. End' = End - 1 /\ End \in Int /\ End <= Len(queue)
    BY <1>0, <2>1 DEF End
  <2>5. ASSUME Live'
        PROVE  IF End' >= 1 THEN queue'[End'].image = presented' ELSE onScreen' = presented'
    <3>1. CASE End' >= 1
      <4>1. End' \in DOMAIN queue' /\ End >= 1
        BY <2>1, <2>4, <3>1
      <4>2. queue'[End'] = queue[End]
        BY <2>1, <2>4, <4>1
      <4> QED
        BY <2>1, <2>5, <3>1, <4>1, <4>2 DEF ScreenInv
    <3>2. CASE End = 1
      <4>1. InTurn(1) /\ queue[1].image = presented
        BY <2>1, <2>5, <3>2 DEF TurnInv, ScreenInv
      <4>2. Op(1) # "draw"
        <5>1. SUFFICES ASSUME Op(1) = "draw",
                              End - 1 = 2 * Ago(SemaphoreIndex, queue[1].pair) - 1
                       PROVE  FALSE
          BY <4>1 DEF InTurn
        <5>2. queue[1].pair \in Images
          <6>1. 1 \in DOMAIN queue
            BY <1>0, <2>1
          <6> QED
            BY <5>1, <6>1, Types
        <5>3. Ago(SemaphoreIndex, queue[1].pair) \in Nat
          BY <5>2, AgoRange
        <5> QED
          BY <3>2, <5>1, <5>3
      <4> QED
        BY <2>1, <2>2, <2>4, <3>2, <4>1, <4>2
    <3>3. CASE ~(End >= 1)
      <4>1. pc = "present" /\ Len(queue) = 1 /\ onScreen = presented
        BY <1>0, <2>1, <2>5, <3>3 DEF End, ScreenInv
      <4>2. Op(1) = "draw"
        BY <1>0, <2>1, <2>5, <4>1 DEF TurnInv, Command, Op
      <4> QED
        BY <2>1, <2>2, <2>4, <3>3, <4>1, <4>2
    <3> QED
      BY <2>4, <3>1, <3>2, <3>3
  <2>6. ASSUME NEW i \in Draws'
        PROVE  IF i = 1 THEN queue'[i].image # onScreen'
               ELSE Op(i - 1)' = "show" /\ queue'[i - 1].image # queue'[i].image
    <3>1. /\ i \in Nat \ {0} /\ i + 1 \in Draws /\ i + 1 # 1 /\ (i + 1) - 1 = i
          /\ queue'[i] = queue[i + 1]
      BY <2>1
    <3>2. Op(i) = "show" /\ queue[i].image # queue[i + 1].image
      BY <3>1 DEF ScreenInv
    <3>3. CASE i = 1
      BY <2>2, <3>1, <3>2, <3>3
    <3>4. CASE i # 1
      <4>1. i \in DOMAIN queue' /\ i - 1 \in DOMAIN queue' /\ (i - 1) + 1 = i
        BY <2>1, <3>1, <3>4 DEF Draws
      <4>2. queue'[i - 1] = queue[i]
        BY <2>1, <4>1
      <4> QED
        BY <3>1, <3>2, <3>4, <4>2 DEF Op
    <3> QED
      BY <3>3, <3>4
  <2>7. pc' \in {"wait", "record"} => FrameIndex' # presented'
    BY <2>1 DEF ScreenInv
  <2> QED
    BY <2>1, <2>3, <2>5, <2>6, <2>7 DEF ScreenInv
<1>9. CASE Release \/ UNCHANGED vars
  <2>1. UNCHANGED <<pc, rebuild, FrameIndex, queue, onScreen, presented>>
    BY <1>9 DEF Release, vars, loop, gpu
  <2> QED
    BY <2>1 DEF ScreenInv, Live, End, Draws, Op
<1> QED
  BY <1>1, <1>2, <1>3, <1>4, <1>5, <1>6, <1>7, <1>8, <1>9, StepsOfNext

(* Every step keeps a draw, or its signal, in front of each present. *)
LEMMA NextCompleteInv ==
    ASSUME FramesInv, ShowInv, TurnInv, RenderedInv, CompleteInv, [Next]_vars
    PROVE  CompleteInv'
<1>0. /\ Len(queue) \in Nat /\ DOMAIN queue = 1 .. Len(queue)
      /\ queue = <<>> <=> Len(queue) = 0
      /\ rendered \in [Images -> Nat]
  BY Types
<1>1. CASE UNCHANGED <<queue, rendered>> /\ pc' # "present"
  BY <1>1 DEF CompleteInv, Op
<1>2. CASE Recreate
  <2>1. queue' = <<>> /\ pc' = "draw"
    BY <1>2 DEF Recreate, Resize, CreateOrResizeWindow
  <2> QED
    BY <2>1 DEF CompleteInv
<1>3. CASE UploadFonts \/ Upload
  BY <1>3, UploadAlone DEF CompleteInv, Op
<1>4. CASE RecordAndSubmit \/ (Present /\ queue' # queue)
  <2>1. PICK op \in {"draw", "show"} :
            /\ queue' = Append(queue, Command(op, FrameIndex, SemaphoreIndex))
            /\ op = "show" => pc = "present" /\ Live
            /\ UNCHANGED rendered
    BY <1>4, FrameCommands DEF RecordAndSubmit, Present, InFrame
  <2>2. /\ \A i \in DOMAIN queue : queue'[i] = queue[i]
        /\ DOMAIN queue' = 1 .. Len(queue) + 1
        /\ queue'[Len(queue) + 1].op = op
        /\ queue'[Len(queue) + 1].pair = SemaphoreIndex
    BY <2>1, Grow, FrameCommands
  <2>3. queue' # <<>>
    BY <1>0, <2>2
  <2>4. ASSUME NEW i \in DOMAIN queue', Op(i)' = "show"
        PROVE  IF i = 1 THEN rendered'[queue'[i].pair] = 1 ELSE Op(i - 1)' = "draw"
    <3>1. CASE i \in DOMAIN queue
      <4>1. i # 1 => i - 1 \in DOMAIN queue
        BY <1>0, <3>1
      <4> QED
        BY <2>1, <2>2, <2>4, <3>1, <4>1 DEF CompleteInv, Op
    <3>2. CASE i = Len(queue) + 1 /\ queue = <<>>
      BY <1>0, <2>1, <2>2, <2>4, <3>2 DEF CompleteInv, Op
    <3>3. CASE i = Len(queue) + 1 /\ queue # <<>>
      <4>1. i # 1 /\ i - 1 = Len(queue) /\ Len(queue) \in DOMAIN queue
        BY <1>0, <3>3
      <4>2. queue[Len(queue)] = Command("draw", FrameIndex, SemaphoreIndex)
        BY <2>1, <2>2, <2>4, <3>3 DEF TurnInv, Op
      <4> QED
        BY <2>2, <4>1, <4>2, FrameCommands DEF Op
    <3>4. i \in DOMAIN queue \/ i = Len(queue) + 1
      BY <1>0, <2>2
    <3> QED
      BY <3>1, <3>2, <3>3, <3>4
  <2> QED
    BY <2>3, <2>4 DEF CompleteInv
<1>5. CASE Render
  <2>1. /\ Len(queue') = Len(queue) - 1
        /\ UNCHANGED <<pc, rebuild, FrameIndex, SemaphoreIndex>>
        /\ \A i \in DOMAIN queue' : i + 1 \in DOMAIN queue /\ queue'[i] = queue[i + 1]
        /\ 1 \in DOMAIN queue /\ Head(queue) = queue[1] /\ queue # <<>>
        /\ queue' = <<>> <=> Len(queue) = 1
        /\ DOMAIN queue' = 1 .. Len(queue')
    BY <1>5, Shift, GpuTail DEF GpuStep
  <2>2. /\ Op(1) = "draw" /\ queue[1].pair \in Images
        /\ rendered' = [rendered EXCEPT ![queue[1].pair] = @ + 1]
    BY <1>5, <2>1, Types DEF Render, Op, Add
  <2>3. rendered[queue[1].pair] = 0
    BY <2>1, <2>2 DEF RenderedInv
  <2>4. rendered'[queue[1].pair] = 1
    BY <1>0, <2>2, <2>3
  <2>5. ASSUME NEW i \in DOMAIN queue', Op(i)' = "show"
        PROVE  IF i = 1 THEN rendered'[queue'[i].pair] = 1 ELSE Op(i - 1)' = "draw"
    <3>1. /\ i + 1 \in DOMAIN queue /\ queue'[i] = queue[i + 1]
          /\ i \in Nat \ {0} /\ i + 1 # 1 /\ (i + 1) - 1 = i
      BY <1>0, <2>1
    <3>2. CASE i = 1
      <4>1. queue[2] = Command("show", queue[1].image, queue[1].pair)
        BY <2>1, <2>2, <3>1, <3>2 DEF ShowInv, Draws
      <4> QED
        BY <2>4, <3>1, <3>2, <4>1 DEF Command
    <3>3. CASE i # 1
      <4>1. Op(i) = "draw"
        BY <2>5, <3>1 DEF CompleteInv, Op
      <4>2. i - 1 \in DOMAIN queue' /\ (i - 1) + 1 = i
        BY <2>1, <3>1, <3>3
      <4> QED
        BY <2>1, <3>3, <4>1, <4>2 DEF Op
    <3> QED
      BY <3>2, <3>3
  <2>6. ASSUME Live', pc' = "present", queue' = <<>>
        PROVE  rendered'[SemaphoreIndex'] = 1
    <3>1. queue[1] = Command("draw", FrameIndex, SemaphoreIndex)
      BY <2>1, <2>6 DEF TurnInv, Live
    <3> QED
      BY <2>1, <2>4, <3>1, FrameCommands
  <2> QED
    BY <2>5, <2>6 DEF CompleteInv
<1>6. CASE Show
  <2>1. /\ Len(queue') = Len(queue) - 1
        /\ UNCHANGED <<pc, rebuild, FrameIndex, SemaphoreIndex>>
        /\ \A i \in DOMAIN queue' : i + 1 \in DOMAIN queue /\ queue'[i] = queue[i + 1]
        /\ Head(queue) = queue[1] /\ queue # <<>>
        /\ queue' = <<>> <=> Len(queue) = 1
        /\ DOMAIN queue' = 1 .. Len(queue')
    BY <1>6, Shift, GpuTail DEF GpuStep
  <2>2. Op(1) = "show"
    BY <1>6, <2>1 DEF Show, Op
  <2>3. ASSUME NEW i \in DOMAIN queue', Op(i)' = "show"
        PROVE  IF i = 1 THEN rendered'[queue'[i].pair] = 1 ELSE Op(i - 1)' = "draw"
    <3>1. /\ i + 1 \in DOMAIN queue /\ queue'[i] = queue[i + 1]
          /\ i \in Nat \ {0} /\ i + 1 # 1 /\ (i + 1) - 1 = i
      BY <1>0, <2>1
    <3>2. Op(i) = "draw" /\ i # 1
      BY <2>2, <2>3, <3>1 DEF CompleteInv, Op
    <3>3. i - 1 \in DOMAIN queue' /\ (i - 1) + 1 = i
      BY <2>1, <3>1, <3>2
    <3> QED
      BY <2>1, <3>2, <3>3 DEF Op
  <2>4. ~(Live' /\ pc' = "present" /\ queue' = <<>>)
    BY <2>1, <2>2, FrameCommands DEF TurnInv, Live, Op
  <2> QED
    BY <2>3, <2>4 DEF CompleteInv
<1>7. CASE Release \/ UNCHANGED vars
  <2>1. UNCHANGED <<pc, rebuild, SemaphoreIndex, queue, rendered>>
    BY <1>7 DEF Release, vars, loop, gpu
  <2> QED
    BY <2>1 DEF CompleteInv, Live, Op
<1>8. CASE Idle \/ TakeImage \/ WaitForFence \/ (Present /\ queue' = queue)
  <2>1. UNCHANGED <<queue, rendered>> /\ pc' # "present"
    BY <1>8, IdleStep DEF TakeImage, WaitForFence, Present, gpu
  <2> QED
    BY <1>1, <2>1
<1> QED
  BY <1>2, <1>3, <1>4, <1>5, <1>6, <1>7, <1>8, StepsOfNext

(* A signal that is awaited by the first draw is not held back: its image is *)
(* not the one that is shown before that draw.                               *)
LEMMA FirstNotHeld ==
    ASSUME FramesInv, PairsInv, ScreenInv, NEW i \in Draws, FirstDraw(queue[i].pair),
           NEW o, Awaited(o, i)
    PROVE  ~o.toShow /\ ~Held(o) /\ (Op(1) = "show" => o.image # queue[1].image)
<1>1. i = 1 \/ (i = 2 /\ Op(1) = "show")
  <2>1. CASE 1 \in DOMAIN queue /\ Op(1) = "draw" /\ queue[1].pair = queue[i].pair
    <3>1. 1 \in Draws
      BY <2>1 DEF Draws
    <3> QED
      BY <2>1, <3>1 DEF PairsInv
  <2>2. CASE /\ 2 \in DOMAIN queue /\ Op(1) = "show"
             /\ Op(2) = "draw" /\ queue[2].pair = queue[i].pair
    <3>1. 2 \in Draws
      BY <2>2 DEF Draws
    <3> QED
      BY <2>2, <3>1 DEF PairsInv
  <2> QED
    BY <2>1, <2>2 DEF FirstDraw
<1>2. Op(i) = "draw" /\ o.image = queue[i].image
  BY DEF Draws, Awaited
<1>3. CASE i = 1
  <2>1. ~o.toShow /\ o.image # onScreen
    BY <1>2, <1>3 DEF Awaited, ScreenInv
  <2> QED
    BY <1>2, <1>3, <2>1 DEF Held
<1>4. CASE i = 2 /\ Op(1) = "show"
  <2>1. o.image # queue[1].image
    BY <1>2, <1>4 DEF ScreenInv
  <2>2. ~o.toShow
    BY <1>2, <1>4, <2>1 DEF Awaited
  <2> QED
    BY <1>4, <2>1, <2>2 DEF Held
<1> QED
  BY <1>1, <1>3, <1>4

(* What is submitted stands behind the draws that await their signals.       *)
LEMMA AwaitedBefore ==
    ASSUME FramesInv, NEW c \in Commands, queue' = Append(queue, c),
           NEW i \in Draws, NEW o, Awaited(o, i)
    PROVE  Awaited(o, i)'
<1>1. /\ i \in DOMAIN queue /\ queue'[i] = queue[i]
      /\ \A j \in 1 .. i - 1 : j \in DOMAIN queue /\ queue'[j] = queue[j]
  BY Grow, Types DEF Draws
<1> QED
  BY <1>1 DEF Awaited, Op

(* What the display owes, s, after the GPU has taken the first command,      *)
(* where it has owed o before.                                               *)
Became(o, s) ==
    /\ s.pair = o.pair /\ s.image = o.image
    /\ s.toShow => o.toShow /\ ~(Op(1) = "show" /\ queue[1].image = o.image)

(* The signals that are awaited are so when the GPU has gone on. *)
LEMMA StillAwaited ==
    ASSUME FramesInv, GpuStep, Op(1) \in {"draw", "show"}, NEW o, NEW s, Became(o, s)
    PROVE  /\ \A i \in Draws' : Awaited(o, i + 1) => Awaited(s, i)'
           /\ Fresh(o) => Fresh(s)'
<1>1. ASSUME NEW i \in Draws', Awaited(o, i + 1)
      PROVE  Awaited(s, i)'
  <2>1. i \in Nat \ {0} /\ i + 1 \in Draws /\ queue'[i] = queue[i + 1]
    BY <1>1, Shift
  <2>2. s.pair = queue'[i].pair /\ s.image = queue'[i].image
    BY <1>1, <2>1 DEF Awaited, Became
  <2>3. ASSUME s.toShow
        PROVE  \E j \in 1 .. i - 1 : Op(j)' = "show" /\ queue'[j].image = s.image
    <3>1. PICK j \in 1 .. (i + 1) - 1 : Op(j) = "show" /\ queue[j].image = o.image
      BY <1>1, <2>3 DEF Awaited, Became
    <3>2. j # 1
      BY <2>3, <3>1 DEF Became
    <3>3. j \in DOMAIN queue
      BY <2>1, <3>1, Types DEF Draws
    <3>4. j - 1 \in 1 .. i - 1 /\ queue'[j - 1] = queue[j]
      BY <2>1, <3>1, <3>2, <3>3, Shift
    <3> QED
      BY <3>1, <3>4 DEF Op, Became
  <2> QED
    BY <2>2, <2>3 DEF Awaited, Op
<1>2. ASSUME Fresh(o)
      PROVE  Fresh(s)'
  <2>1. s.pair = SemaphoreIndex' /\ s.image = FrameIndex'
    BY <1>2, Shift DEF Fresh, Became
  <2>2. ASSUME s.toShow
        PROVE  InQueue("show", FrameIndex)'
    <3>1. PICK j \in DOMAIN queue : queue[j].op = "show" /\ queue[j].image = FrameIndex
      BY <1>2, <2>2 DEF Fresh, InQueue, Became
    <3>2. j # 1
      BY <1>2, <2>2, <3>1 DEF Became, Fresh, Op
    <3>3. j - 1 \in DOMAIN queue' /\ queue'[j - 1] = queue[j] /\ FrameIndex' = FrameIndex
      BY <3>2, Shift
    <3> QED
      BY <3>1, <3>3 DEF InQueue
  <2> QED
    BY <2>1, <2>2 DEF Fresh
<1> QED
  BY <1>1, <1>2

(* Every step of the loop but taking an image keeps a signal for each draw. *)
LEMMA LoopSupplyInv ==
    ASSUME FramesInv, TurnInv, SupplyInv,
           \/ Idle \/ Recreate \/ UploadFonts \/ Upload \/ WaitForFence
           \/ RecordAndSubmit \/ Present \/ UNCHANGED vars
    PROVE  SupplyInv'
<1>1. CASE Idle
  <2>1. UNCHANGED <<queue, acquired, owed>> /\ pc' \notin {"wait", "record"}
    BY <1>1, IdleStep DEF gpu
  <2> QED
    BY <2>1 DEF SupplyInv, Awaited, Draws, Op
<1>2. CASE Recreate
  <2>1. queue' = <<>> /\ pc' = "draw"
    BY <1>2 DEF Recreate, Resize, CreateOrResizeWindow
  <2>2. Draws' = {}
    BY <2>1 DEF Draws
  <2> QED
    BY <2>1, <2>2 DEF SupplyInv
<1>3. CASE UploadFonts \/ Upload
  BY <1>3, UploadAlone DEF SupplyInv
<1>4. CASE WaitForFence
  <2>1. /\ UNCHANGED <<queue, acquired, owed, FrameIndex, SemaphoreIndex>>
        /\ pc = "wait"
    BY <1>4 DEF WaitForFence, loop
  <2> QED
    BY <2>1 DEF SupplyInv, Awaited, Fresh, Taken, Another, InQueue, Draws, Op
<1>5. CASE RecordAndSubmit
  <2>1. /\ queue' = Append(queue, Command("draw", FrameIndex, SemaphoreIndex))
        /\ pc = "record" /\ pc' = "present" /\ UNCHANGED <<acquired, owed>>
        /\ Live /\ ~InQueue("draw", FrameIndex)
    BY <1>5, FrameCommands DEF RecordAndSubmit, InFrame, FramesInv, FenceInv
  <2>2. ~Taken
    BY <2>1, PairIsFree DEF Taken
  <2>3. /\ Len(queue) \in Nat /\ DOMAIN queue = 1 .. Len(queue)
        /\ \A i \in DOMAIN queue : queue'[i] = queue[i]
        /\ queue'[Len(queue) + 1].image = FrameIndex
        /\ queue'[Len(queue) + 1].pair = SemaphoreIndex
        /\ \A i \in Draws' : i \in Draws \/ i = Len(queue) + 1
    BY <2>1, Grow, FrameCommands
  <2>4. ASSUME NEW i \in Draws'
        PROVE  acquired'[queue'[i].pair] = 1 \/ \E o \in owed' : Awaited(o, i)'
    <3>1. CASE i \in Draws
      <4>1. queue'[i] = queue[i]
        BY <2>3, <3>1 DEF Draws
      <4>2. \A o : Awaited(o, i) => Awaited(o, i)'
        BY <2>1, <3>1, AwaitedBefore, FrameCommands
      <4> QED
        BY <2>1, <3>1, <4>1, <4>2 DEF SupplyInv
    <3>2. CASE i = Len(queue) + 1
      <4>1. ASSUME NEW o \in owed, Fresh(o)
            PROVE  Awaited(o, i)'
        <5>1. o.pair = queue'[i].pair /\ o.image = queue'[i].image
          BY <2>3, <3>2, <4>1 DEF Fresh
        <5>2. ASSUME o.toShow
              PROVE  \E j \in 1 .. i - 1 : Op(j)' = "show" /\ queue'[j].image = o.image
          <6>1. PICK j \in DOMAIN queue : queue[j].op = "show" /\ queue[j].image = FrameIndex
            BY <4>1, <5>2 DEF Fresh, InQueue
          <6>2. j \in 1 .. i - 1 /\ queue'[j] = queue[j]
            BY <2>3, <3>2, <6>1
          <6> QED
            BY <4>1, <6>1, <6>2 DEF Fresh, Op
        <5> QED
          BY <5>1, <5>2 DEF Awaited, Op
      <4>2. acquired[SemaphoreIndex] = 1 \/ \E o \in owed : Fresh(o)
        BY <2>1, <2>2 DEF SupplyInv
      <4> QED
        BY <2>1, <2>3, <3>2, <4>1, <4>2
    <3> QED
      BY <2>3, <3>1, <3>2
  <2> QED
    BY <2>1, <2>4 DEF SupplyInv
<1>6. CASE Present
  <2>1. pc' = "poll" /\ UNCHANGED <<acquired, owed>>
    BY <1>6 DEF Present
  <2>2. CASE UNCHANGED queue
    BY <2>1, <2>2 DEF SupplyInv, Awaited, Draws, Op
  <2>3. CASE queue' = Append(queue, Command("show", FrameIndex, SemaphoreIndex))
    <3>1. ASSUME NEW i \in Draws'
          PROVE  acquired'[queue'[i].pair] = 1 \/ \E o \in owed' : Awaited(o, i)'
      <4>1. i \in Draws /\ queue'[i] = queue[i]
        BY <2>3, <3>1, Grow, FrameCommands DEF Draws
      <4>2. \A o : Awaited(o, i) => Awaited(o, i)'
        BY <2>3, <4>1, AwaitedBefore, FrameCommands
      <4> QED
        BY <2>1, <4>1, <4>2 DEF SupplyInv
    <3> QED
      BY <2>1, <3>1 DEF SupplyInv
  <2> QED
    BY <1>6, <2>2, <2>3 DEF Present
<1>7. CASE UNCHANGED vars
  <2>1. UNCHANGED <<pc, queue, acquired, owed, FrameIndex, SemaphoreIndex>>
    BY <1>7 DEF vars, loop, gpu
  <2> QED
    BY <2>1 DEF SupplyInv, Awaited, Fresh, Taken, Another, InQueue, Draws, Op
<1> QED
  BY <1>1, <1>2, <1>3, <1>4, <1>5, <1>6, <1>7

(* The signal of an image that is handed out is another one than that of the *)
(* draw which has its pair still.                                            *)
LEMMA TakeSupplyInv ==
    ASSUME FramesInv, ShowInv, TurnInv, PairsInv, ScreenInv, SupplyInv, TakeImage
    PROVE  SupplyInv'
<1>1. /\ UNCHANGED <<queue, acquired, SemaphoreIndex>>
      /\ pc = "acquire" /\ Live /\ FrameIndex' \in Images
  BY FrameCommands DEF TakeImage, HandOut, InFrame
<1>2. PICK n \in owed' :
          /\ owed' = owed \cup {n} /\ n.pair = SemaphoreIndex /\ n.image = FrameIndex'
          /\ n.toShow <=> \E i \in DOMAIN queue :
                              queue[i].op = "show" /\ queue[i].image = FrameIndex'
  <2> DEFINE new == [image |-> FrameIndex', pair |-> SemaphoreIndex,
                     toShow |-> InQueue("show", FrameIndex')]
  <2>1. new \in owed' /\ owed' = owed \cup {new}
    BY DEF TakeImage, HandOut
  <2>2. /\ new.pair = SemaphoreIndex /\ new.image = FrameIndex'
        /\ new.toShow <=> \E i \in DOMAIN queue :
                            queue[i].op = "show" /\ queue[i].image = FrameIndex'
    BY DEF InQueue
  <2> HIDE DEF new
  <2> QED
    BY <2>1, <2>2
<1>3. Draws' = Draws /\ Taken' = Taken /\ \A o, i : Awaited(o, i)' = Awaited(o, i)
  BY <1>1 DEF Draws, Taken, Awaited, Op
<1>4. \A i \in Draws' :
          acquired'[queue'[i].pair] = 1 \/ \E o \in owed' : Awaited(o, i)'
  BY <1>1, <1>2, <1>3 DEF SupplyInv
<1>5. Fresh(n)'
  BY <1>1, <1>2 DEF Fresh, InQueue
<1>6. ASSUME Taken
      PROVE  Another(n)'
  <2>1. PICK d \in Draws : queue[d].pair = SemaphoreIndex
    BY <1>6 DEF Taken
  <2>2. /\ FirstDraw(queue[d].pair)
        /\ \A m \in Images : \E i \in Draws : queue[i].image = m /\ i + 1 \in DOMAIN queue
    BY <1>1, <2>1, FullQueue
  <2>3. CASE acquired[SemaphoreIndex] = 1
    BY <1>1, <2>3 DEF Another
  <2>4. CASE \E o \in owed : Awaited(o, d)
    <3>1. PICK o \in owed : Awaited(o, d)
      BY <2>4
    <3>2. ~o.toShow
      BY <2>2, <3>1, FirstNotHeld
    <3>3. n.toShow
      <4>1. PICK i \in Draws : queue[i].image = FrameIndex' /\ i + 1 \in DOMAIN queue
        BY <1>1, <2>2
      <4>2. queue[i + 1] = Command("show", FrameIndex', queue[i].pair)
        BY <4>1 DEF ShowInv
      <4>3. InQueue("show", FrameIndex')
        BY <4>1, <4>2 DEF InQueue, Command
      <4> QED
        BY <1>2, <4>3 DEF InQueue
    <3>4. o \in owed' \ {n}
      BY <1>2, <3>2, <3>3
    <3>5. /\ d \in Draws' /\ queue'[d].pair = SemaphoreIndex' /\ Awaited(o, d)'
      BY <1>1, <1>3, <2>1, <3>1
    <3> QED
      BY <3>4, <3>5 DEF Another
  <2> QED
    BY <2>1, <2>3, <2>4 DEF SupplyInv
<1> QED
  BY <1>3, <1>4, <1>5, <1>6 DEF SupplyInv

(* The GPU takes the signal of its own draw, and shows no image that a later *)
(* draw awaits.                                                              *)
LEMMA GpuSupplyInv ==
    ASSUME FramesInv, AcquiredInv, PairsInv, ScreenInv, SupplyInv, Render \/ Show
    PROVE  SupplyInv'
<1>1. /\ UNCHANGED <<pc, SemaphoreIndex>> /\ 1 \in DOMAIN queue /\ Head(queue) = queue[1]
      /\ \A i \in Draws' : i \in Nat \ {0} /\ i + 1 \in Draws /\ queue'[i] = queue[i + 1]
      /\ \A i \in Draws : i # 1 => i - 1 \in Draws'
      /\ \A i \in DOMAIN queue : i # 1 => queue'[i - 1] = queue[i]
      /\ \A i \in Draws : i \in DOMAIN queue /\ i \in Nat /\ queue[i].pair \in Images
  <2>1. GpuStep
    BY DEF GpuStep
  <2>2. \A i \in Draws : i \in DOMAIN queue /\ i \in Nat /\ queue[i].pair \in Images
    BY Types DEF Draws
  <2> QED
    BY <2>1, <2>2, Shift, GpuTail
<1>2. acquired \in [Images -> Nat]
      /\ owed \subseteq [image : Images, pair : Images, toShow : BOOLEAN]
  BY Types
<1>3. CASE Render
  <2>1. /\ Op(1) = "draw" /\ UNCHANGED owed /\ 1 \in Draws
        /\ acquired' = [acquired EXCEPT ![queue[1].pair] = @ - 1]
    BY <1>1, <1>3 DEF Render, Op, Draws
  <2>2. \A i \in Draws : i # 1 => queue[i].pair # queue[1].pair
    BY <2>1 DEF PairsInv
  <2>3. \A pair \in Images : pair # queue[1].pair => acquired'[pair] = acquired[pair]
    BY <1>2, <2>1
  <2>4. ASSUME NEW o
        PROVE  /\ \A i \in Draws' : Awaited(o, i + 1) => Awaited(o, i)'
               /\ Fresh(o) => Fresh(o)'
    <3>1. Became(o, o)
      BY <2>1 DEF Became
    <3> QED
      BY <1>3, <2>1, <3>1, StillAwaited DEF GpuStep
  <2>5. ASSUME NEW i \in Draws'
        PROVE  acquired'[queue'[i].pair] = 1 \/ \E o \in owed' : Awaited(o, i)'
    <3>1. /\ i + 1 \in Draws /\ i + 1 # 1 /\ queue'[i] = queue[i + 1]
          /\ queue'[i].pair \in Images
      BY <1>1
    <3>2. acquired'[queue'[i].pair] = acquired[queue[i + 1].pair]
      BY <2>2, <2>3, <3>1
    <3> QED
      BY <2>1, <2>4, <3>1, <3>2 DEF SupplyInv
  <2>6. ASSUME pc' \in {"wait", "record"}, ~Taken'
        PROVE  acquired'[SemaphoreIndex'] = 1 \/ \E o \in owed' : Fresh(o)'
    <3>1. CASE Taken
      <4>1. PICK o \in owed : Fresh(o)
        BY <1>1, <2>6, <3>1 DEF SupplyInv
      <4> QED
        BY <2>1, <2>4, <4>1
    <3>2. CASE ~Taken
      <4>1. acquired'[SemaphoreIndex'] = acquired[SemaphoreIndex]
        BY <1>1, <2>1, <2>3, <3>2, Types DEF Taken
      <4> QED
        BY <1>1, <2>1, <2>4, <2>6, <3>2, <4>1 DEF SupplyInv
    <3> QED
      BY <3>1, <3>2
  <2>7. ASSUME pc' \in {"wait", "record"}, Taken'
        PROVE  \E o \in owed' : Fresh(o)' /\ Another(o)'
    <3>1. PICK d \in Draws' : queue'[d].pair = SemaphoreIndex'
      BY <2>7 DEF Taken
    <3>2. d + 1 \in Draws /\ d + 1 # 1 /\ queue[d + 1].pair = SemaphoreIndex
      BY <1>1, <3>1
    <3>3. Taken /\ SemaphoreIndex # queue[1].pair
      BY <2>2, <3>2 DEF Taken
    <3>4. PICK o \in owed : Fresh(o) /\ Another(o)
      BY <1>1, <2>7, <3>3 DEF SupplyInv
    <3>5. CASE acquired[SemaphoreIndex] = 1
      BY <1>1, <2>1, <2>3, <2>4, <3>3, <3>4, <3>5, Types DEF Another
    <3>6. CASE \E i \in Draws, other \in owed \ {o} :
                   queue[i].pair = SemaphoreIndex /\ Awaited(other, i)
      <4>1. PICK i \in Draws, other \in owed \ {o} :
                queue[i].pair = SemaphoreIndex /\ Awaited(other, i)
        BY <3>6
      <4>2. i # 1 /\ i - 1 \in Draws' /\ queue'[i - 1] = queue[i] /\ (i - 1) + 1 = i
        BY <1>1, <3>3, <4>1
      <4>3. Awaited(other, i - 1)'
        BY <2>4, <4>1, <4>2
      <4>4. i - 1 \in Draws' /\ other \in owed' \ {o}
            /\ queue'[i - 1].pair = SemaphoreIndex'
        BY <1>1, <2>1, <4>1, <4>2
      <4> QED
        BY <2>1, <2>4, <3>4, <4>3, <4>4 DEF Another
    <3> QED
      BY <3>4, <3>5, <3>6 DEF Another
  <2> QED
    BY <2>5, <2>6, <2>7 DEF SupplyInv
<1>4. CASE Show
  <2> DEFINE Shown(o) == [o EXCEPT !.toShow = @ /\ o.image # queue[1].image]
  <2>1. /\ Op(1) = "show" /\ UNCHANGED acquired
        /\ owed' = {Shown(o) : o \in owed}
    BY <1>1, <1>4 DEF Show, Op
  <2>2. ASSUME NEW o \in owed
        PROVE  /\ Shown(o) \in owed' /\ Became(o, Shown(o))
               /\ o.image # queue[1].image => Shown(o) = o
    <3>1. /\ Shown(o).image = o.image /\ Shown(o).pair = o.pair
          /\ Shown(o).toShow = (o.toShow /\ o.image # queue[1].image)
      BY <1>2
    <3>2. o.image # queue[1].image => Shown(o) = o
      BY <1>2
    <3> QED
      BY <2>1, <3>1, <3>2 DEF Became
  <2> HIDE DEF Shown
  <2>3. ASSUME NEW o \in owed
        PROVE  \E s \in owed' :
                   /\ s = Shown(o)
                   /\ \A i \in Draws' : Awaited(o, i + 1) => Awaited(s, i)'
                   /\ Fresh(o) => Fresh(s)'
    <3>1. PICK s \in owed' : s = Shown(o) /\ Became(o, s)
      BY <2>2
    <3> QED
      BY <1>4, <2>1, <3>1, StillAwaited DEF GpuStep
  <2>4. ASSUME NEW i \in Draws'
        PROVE  acquired'[queue'[i].pair] = 1 \/ \E o \in owed' : Awaited(o, i)'
    <3>1. i + 1 \in Draws /\ queue'[i] = queue[i + 1]
      BY <1>1
    <3> QED
      BY <2>1, <2>3, <3>1 DEF SupplyInv
  <2>5. Taken' => Taken
    BY <1>1 DEF Taken
  <2>6. Taken => Taken'
    <3> SUFFICES ASSUME NEW i \in Draws, queue[i].pair = SemaphoreIndex
                 PROVE  Taken'
      BY DEF Taken
    <3>1. i # 1
      BY <2>1 DEF Draws
    <3>2. i - 1 \in Draws' /\ queue'[i - 1].pair = SemaphoreIndex'
      BY <1>1, <3>1
    <3> QED
      BY <3>2 DEF Taken
  <2>7. ASSUME pc' \in {"wait", "record"}, ~Taken'
        PROVE  acquired'[SemaphoreIndex'] = 1 \/ \E o \in owed' : Fresh(o)'
    BY <1>1, <2>1, <2>3, <2>6, <2>7 DEF SupplyInv
  <2>8. ASSUME pc' \in {"wait", "record"}, Taken'
        PROVE  \E o \in owed' : Fresh(o)' /\ Another(o)'
    <3>1. PICK o \in owed : Fresh(o) /\ Another(o)
      BY <1>1, <2>5, <2>8 DEF SupplyInv
    <3>2. PICK s \in owed' : s = Shown(o) /\ Fresh(s)'
      BY <2>3, <3>1
    <3>3. CASE acquired[SemaphoreIndex] = 1
      BY <1>1, <2>1, <3>2, <3>3 DEF Another
    <3>4. CASE /\ acquired[SemaphoreIndex] # 1
               /\ \E i \in Draws, other \in owed \ {o} :
                      queue[i].pair = SemaphoreIndex /\ Awaited(other, i)
      <4>1. PICK i \in Draws, other \in owed \ {o} :
                queue[i].pair = SemaphoreIndex /\ Awaited(other, i)
        BY <3>4
      <4>2. i # 1 /\ i - 1 \in Draws' /\ queue'[i - 1] = queue[i] /\ (i - 1) + 1 = i
        BY <1>1, <2>1, <4>1 DEF Draws
      <4>3. other.pair = SemaphoreIndex /\ o.pair = SemaphoreIndex /\ other # o
        BY <3>1, <4>1 DEF Awaited, Fresh
      <4>4. FirstDraw(SemaphoreIndex)
        BY <4>1, <4>3 DEF AcquiredInv, Held
      <4>5. other.image # queue[1].image
        BY <2>1, <4>1, <4>4, FirstNotHeld
      <4>6. Shown(other) = other
        BY <2>2, <4>1, <4>5
      <4>7. s # other
        <5>1. CASE o.image = queue[1].image
          BY <2>2, <3>2, <4>5, <5>1 DEF Became
        <5>2. CASE o.image # queue[1].image
          BY <2>2, <3>2, <4>3, <5>2
        <5> QED
          BY <5>1, <5>2
      <4>8. other \in owed' \ {s} /\ Awaited(other, i - 1)'
        BY <2>3, <4>1, <4>2, <4>6, <4>7
      <4>9. queue'[i - 1].pair = SemaphoreIndex'
        BY <1>1, <4>1, <4>2
      <4> QED
        BY <3>2, <4>2, <4>8, <4>9 DEF Another
    <3> QED
      BY <3>1, <3>3, <3>4 DEF Another
  <2> QED
    BY <2>4, <2>7, <2>8 DEF SupplyInv
<1> QED
  BY <1>3, <1>4

(* The display gives a signal that it owes to the draw that awaits it; the   *)
(* one for the frame that is made comes after the other with its pair.       *)
LEMMA ReleaseSupplyInv ==
    ASSUME FramesInv, AcquiredInv, PairsInv, ScreenInv, SupplyInv, Release
    PROVE  SupplyInv'
<1>1. /\ acquired \in [Images -> Nat] /\ SemaphoreIndex \in Images
      /\ owed \subseteq [image : Images, pair : Images, toShow : BOOLEAN]
      /\ \A i \in Draws : queue[i].pair \in Images
  BY Types DEF Draws
<1>2. PICK r \in owed :
          /\ ~r.toShow /\ r.image # onScreen
          /\ acquired' = [acquired EXCEPT ![r.pair] = @ + 1]
          /\ owed' = owed \ {r}
  BY DEF Release, Add
<1>3. ~Held(r) /\ acquired[r.pair] = 0
  BY <1>1, <1>2 DEF Held, AcquiredInv
<1>4. \A pair \in Images : acquired'[pair] = IF pair = r.pair THEN 1 ELSE acquired[pair]
  BY <1>1, <1>2, <1>3
<1>5. UNCHANGED <<pc, FrameIndex, SemaphoreIndex, queue>>
  BY DEF Release, loop
<1>6. /\ Draws' = Draws /\ Taken' = Taken
      /\ \A o : Fresh(o)' = Fresh(o)
      /\ \A o, i : Awaited(o, i)' = Awaited(o, i)
  BY <1>5 DEF Draws, Taken, Fresh, Awaited, InQueue, Op
<1>7. ASSUME NEW i \in Draws'
      PROVE  acquired'[queue'[i].pair] = 1 \/ \E o \in owed' : Awaited(o, i)'
  <2>1. i \in Draws /\ queue'[i] = queue[i] /\ queue[i].pair \in Images
    BY <1>1, <1>5, <1>6
  <2>2. CASE queue[i].pair = r.pair
    BY <1>4, <2>1, <2>2
  <2>3. CASE queue[i].pair # r.pair
    BY <1>2, <1>4, <1>6, <2>1, <2>3 DEF SupplyInv, Awaited
  <2> QED
    BY <2>2, <2>3
<1>8. ASSUME pc' \in {"wait", "record"}, ~Taken'
      PROVE  acquired'[SemaphoreIndex'] = 1 \/ \E o \in owed' : Fresh(o)'
  <2>1. acquired[SemaphoreIndex] = 1 \/ \E o \in owed : Fresh(o)
    BY <1>5, <1>6, <1>8 DEF SupplyInv
  <2> QED
    BY <1>1, <1>2, <1>4, <1>5, <1>6, <2>1 DEF Fresh
<1>9. ASSUME pc' \in {"wait", "record"}, Taken'
      PROVE  \E o \in owed' : Fresh(o)' /\ Another(o)'
  <2>1. PICK o \in owed : Fresh(o) /\ Another(o)
    BY <1>5, <1>6, <1>9 DEF SupplyInv
  <2>2. CASE acquired[SemaphoreIndex] = 1
    <3>1. o # r
      BY <1>3, <2>1, <2>2 DEF AcquiredInv, Fresh
    <3>2. acquired'[SemaphoreIndex'] = 1
      BY <1>1, <1>4, <1>5, <2>2
    <3> QED
      BY <1>2, <1>6, <2>1, <3>1, <3>2 DEF Another
  <2>3. CASE \E i \in Draws, other \in owed \ {o} :
                 queue[i].pair = SemaphoreIndex /\ Awaited(other, i)
    <3>1. PICK i \in Draws, other \in owed \ {o} :
              queue[i].pair = SemaphoreIndex /\ Awaited(other, i)
      BY <2>3
    <3>2. other.pair = SemaphoreIndex /\ o.pair = SemaphoreIndex
      BY <2>1, <3>1 DEF Awaited, Fresh
    <3>3. o # r
      <4>1. SUFFICES ASSUME o = r PROVE FALSE
        OBVIOUS
      <4>2. Held(other)
        BY <1>3, <3>1, <3>2, <4>1 DEF AcquiredInv
      <4>3. FirstDraw(queue[i].pair)
        BY <3>1, <3>2, <4>2 DEF Held
      <4> QED
        BY <3>1, <4>2, <4>3, FirstNotHeld
    <3>4. CASE other = r
      <4>1. acquired'[SemaphoreIndex'] = 1
        BY <1>1, <1>4, <1>5, <3>2, <3>4
      <4> QED
        BY <1>2, <1>6, <2>1, <3>3, <4>1 DEF Another
    <3>5. CASE other # r
      <4>1. /\ i \in Draws' /\ other \in owed' \ {o}
            /\ queue'[i].pair = SemaphoreIndex' /\ Awaited(other, i)'
        BY <1>2, <1>5, <1>6, <3>1, <3>5
      <4> QED
        BY <1>2, <1>6, <2>1, <3>3, <4>1 DEF Another
    <3> QED
      BY <3>4, <3>5
  <2> QED
    BY <2>1, <2>2, <2>3 DEF Another
<1> QED
  BY <1>7, <1>8, <1>9 DEF SupplyInv

(* Nobody waits when the program starts. *)
LEMMA InitWaitInv == Init => WaitInv
<1> SUFFICES ASSUME Init PROVE WaitInv
  OBVIOUS
<1>1. queue = <<>> /\ Draws = {} /\ DOMAIN queue = {} /\ ~Live
  BY DEF Init, Draws, Live, Looping, InFrame
<1>2. SemaphoreInv
  BY InitSemaphoreInv
<1>3. FencesInv /\ PairsInv /\ ScreenInv /\ CompleteInv /\ SupplyInv
  BY <1>1 DEF Init, FencesInv, PairsInv, ScreenInv, CompleteInv, SupplyInv
<1> QED
  BY <1>2, <1>3 DEF WaitInv

(* Every step keeps what is waited for on its way. *)
LEMMA NextWaitInv == WaitInv /\ [Next]_vars => WaitInv'
<1> SUFFICES ASSUME WaitInv, [Next]_vars PROVE WaitInv'
  OBVIOUS
<1>1. /\ FramesInv /\ ShowInv /\ TurnInv /\ RenderedInv /\ AcquiredInv
      /\ FencesInv /\ PairsInv /\ ScreenInv /\ CompleteInv /\ SupplyInv
  BY DEF WaitInv, SemaphoreInv
<1>2. SemaphoreInv'
  BY NextSemaphoreInv DEF WaitInv
<1>3. FencesInv' /\ PairsInv' /\ ScreenInv' /\ CompleteInv'
  BY <1>1, NextFencesInv, NextPairsInv, NextScreenInv, NextCompleteInv
<1>4. SupplyInv'
  BY <1>1, StepsOfNext, LoopSupplyInv, TakeSupplyInv, GpuSupplyInv, ReleaseSupplyInv
<1> QED
  BY <1>2, <1>3, <1>4 DEF WaitInv

(* In every behaviour, however many images there are, nothing that the loop  *)
(* or the GPU waits for has been forgotten: a fence waited for in            *)
(* FrameRender has its draw in the queue, and the GPU, as long as it has     *)
(* commands, can go on by itself or as soon as the display has given a       *)
(* signal that it is free to give.  With fairness, it is why no frame hangs. *)
THEOREM NeverStuck == Spec => []NobodyHangs
<1>1. WaitInv => NobodyHangs
  <2> SUFFICES ASSUME WaitInv PROVE NobodyHangs
    OBVIOUS
  <2>1. /\ FramesInv /\ RenderedInv /\ AcquiredInv
        /\ FencesInv /\ ScreenInv /\ CompleteInv /\ SupplyInv
    BY DEF WaitInv, SemaphoreInv
  <2>2. FenceComes
    BY <2>1, Types DEF FenceComes, FencesInv
  <2>3. ASSUME queue # <<>>
        PROVE  \/ Op(1) = "upload"
               \/ Op(1) = "show" /\ rendered[queue[1].pair] > 0
               \/ /\ Op(1) = "draw"
                  /\ \/ acquired[queue[1].pair] > 0
                     \/ \E o \in owed :
                            o.pair = queue[1].pair /\ ~o.toShow /\ o.image # onScreen
    <3>1. 1 \in DOMAIN queue /\ Op(1) \in {"upload", "draw", "show"}
      <4>1. 1 \in DOMAIN queue /\ queue[1] \in Commands
        BY <2>1, <2>3, Types
      <4> QED
        BY <4>1 DEF Commands, Op
    <3>2. CASE Op(1) = "show"
      BY <2>1, <3>1, <3>2 DEF CompleteInv
    <3>3. CASE Op(1) = "draw"
      <4>1. 1 \in Draws
        BY <3>1, <3>3 DEF Draws
      <4>2. ASSUME NEW o \in owed, Awaited(o, 1)
            PROVE  o.pair = queue[1].pair /\ ~o.toShow /\ o.image # onScreen
        BY <2>1, <4>1, <4>2 DEF Awaited, ScreenInv
      <4> QED
        BY <2>1, <3>3, <4>1, <4>2 DEF SupplyInv
    <3> QED
      BY <3>1, <3>2, <3>3
  <2> QED
    BY <2>2, <2>3 DEF NobodyHangs, GpuGoesOn
<1> QED
  BY <1>1, InitWaitInv, NextWaitInv, PTL DEF Spec

===============================================================================
