-------------------------------- MODULE Frames --------------------------------
(***************************************************************************)
(* The GUI thread of the program, from ApplicationVulkan::setup() to the   *)
(* end of renderLoop() (application_vulkan.cpp), with the GPU that executes *)
(* what is submitted and the display that hands images out.                *)
(*                                                                         *)
(* What the loop has to get right is reuse: every image of the swap chain  *)
(* has one command buffer and one fence (Frames), and there is one pair of *)
(* semaphores per image (FrameSemaphores), chosen by another index.        *)
(***************************************************************************)
EXTENDS Naturals, Sequences

CONSTANT ImageCount         \* wd_->ImageCount, at least g_MinImageCount = 2

ASSUME ImageCountAssumption == ImageCount \in Nat /\ ImageCount >= 2

Images == 0 .. ImageCount - 1

NoImage == ImageCount

VARIABLES
    pc,                \* what the GUI thread does next
    run,               \* run_render_loop_
    window,            \* "shown", "minimised", or "empty" (its size is 0)
    rebuild,           \* g_SwapChainRebuild
    FrameIndex, SemaphoreIndex,
    fence,             \* the images whose fence is signalled
    acquired,          \* per semaphore pair: signals of ImageAcquiredSemaphore
    rendered,          \* and of RenderCompleteSemaphore not yet waited for
    queue,             \* g_Queue: what the GPU has not executed yet
    owed,              \* the images handed out and not released yet: the pair
                       \* to signal, whether they are still to be shown before
    onScreen, presented  \* the image shown, the last one presented (or NoImage)

gpu == <<fence, acquired, rendered, queue, owed, onScreen, presented>>
loop == <<run, window, rebuild, FrameIndex, SemaphoreIndex>>
vars == <<pc, loop, gpu>>

Command(op, image, pair) == [op |-> op, image |-> image, pair |-> pair]

InQueue(op, image) ==
    \E i \in DOMAIN queue : queue[i].op = op /\ queue[i].image = image

Init ==
    /\ pc = "SDL"
    /\ run = FALSE
    /\ window = "shown"
    /\ rebuild = FALSE
    /\ FrameIndex = 0
    /\ SemaphoreIndex = 0
    /\ fence = Images
    /\ acquired = [pair \in Images |-> 0]
    /\ rendered = [pair \in Images |-> 0]
    /\ queue = <<>>
    /\ owed = {}
    /\ onScreen = NoImage
    /\ presented = NoImage

-------------------------------------------------------------------------------
(* Setting up.                                                               *)

(* A step of setup() that may return false.  run() does not look at the      *)
(* result: it starts the loop without what setup() had yet to make.          *)
SetupOrUnready(step, next) ==
    /\ pc = step
    /\ \/ pc' = next /\ UNCHANGED run
       \/ pc' = "unready" /\ run' = TRUE
    /\ UNCHANGED <<window, rebuild, FrameIndex, SemaphoreIndex, gpu>>

InitSDL == SetupOrUnready("SDL", "SetupVulkan")

CreateSurface == SetupOrUnready("surface", "SetupVulkanWindow")

(* A step whose failure ends the program (check_vk_result, IM_ASSERT, exit). *)
SetupOrEnd(step, next) ==
    /\ pc = step
    /\ pc' \in {next, "aborted"}
    /\ UNCHANGED <<loop, gpu>>

SetupVulkan == SetupOrEnd("SetupVulkan", "surface")

SetupVulkanWindow == SetupOrEnd("SetupVulkanWindow", "fonts")

(* The fonts are uploaded by the command buffer of the first frame, without  *)
(* a fence: the device is waited for.                                        *)
UploadFonts ==
    /\ pc = "fonts"
    /\ pc' = "fontsIdle"
    /\ queue' = Append(queue, Command("upload", FrameIndex, NoImage))
    /\ UNCHANGED <<loop, fence, acquired, rendered, owed, onScreen, presented>>

FontsUploaded ==
    /\ pc = "fontsIdle"
    /\ queue = <<>>
    /\ pc' = "poll"
    /\ run' = TRUE
    /\ UNCHANGED <<window, rebuild, FrameIndex, SemaphoreIndex, gpu>>

-------------------------------------------------------------------------------
(* One iteration of the loop.                                                *)

(* SDL_PollEvent: the window may have changed, the user may have closed it.  *)
Poll ==
    /\ pc = "poll" /\ run
    /\ window' \in {"shown", "minimised", "empty"}
    /\ run' \in BOOLEAN
    /\ pc' = "resize"
    /\ UNCHANGED <<rebuild, FrameIndex, SemaphoreIndex, gpu>>

(* ImGui_ImplVulkanH_CreateOrResizeWindow waits for the device and makes     *)
(* images, fences and semaphores anew; SemaphoreIndex stays as it is.        *)
CreateOrResizeWindow ==
    /\ queue = <<>>
    /\ fence' = Images
    /\ acquired' = [pair \in Images |-> 0]
    /\ rendered' = [pair \in Images |-> 0]
    /\ owed' = {}
    /\ onScreen' = NoImage
    /\ presented' = NoImage
    /\ UNCHANGED queue

Resize ==
    /\ pc = "resize"
    /\ pc' = "draw"
    /\ \/ /\ rebuild /\ window # "empty"
          /\ CreateOrResizeWindow
          /\ FrameIndex' = 0
          /\ rebuild' = FALSE
       \/ /\ ~(rebuild /\ window # "empty")
          /\ UNCHANGED <<gpu, FrameIndex, rebuild>>
    /\ UNCHANGED <<run, window, SemaphoreIndex>>

(* renderImgui(), where the menu may end the program; a window without an    *)
(* area is neither rendered nor presented.                                   *)
Draw ==
    /\ pc = "draw"
    /\ run' \in {run, FALSE}
    /\ pc' = IF window = "shown" THEN "acquire" ELSE "poll"
    /\ UNCHANGED <<window, rebuild, FrameIndex, SemaphoreIndex, gpu>>

(* The display hands out any image but the last one presented, before it has *)
(* released it; it signals the semaphore when it has.                        *)
HandOut ==
    /\ FrameIndex' \in Images \ {presented}
    /\ owed' = owed \cup {[image |-> FrameIndex', pair |-> SemaphoreIndex,
                           toShow |-> InQueue("show", FrameIndex')]}

(* Mutant of Acquire: a suboptimal swap chain is put up with. *)
AcquireSuboptimal ==
    /\ pc = "acquire"
    /\ \/ HandOut /\ pc' = "wait" /\ UNCHANGED rebuild
       \/ HandOut /\ pc' = "poll" /\ UNCHANGED rebuild
       \/ rebuild' = TRUE /\ pc' = "poll" /\ UNCHANGED <<FrameIndex, owed>>
    /\ UNCHANGED <<run, window, SemaphoreIndex>>
    /\ UNCHANGED <<fence, acquired, rendered, queue, onScreen, presented>>

(* Mutant of Acquire: that the swap chain is out of date is not looked at. *)
AcquireUnchecked ==
    /\ pc = "acquire"
    /\ \/ HandOut /\ pc' = "wait" /\ UNCHANGED rebuild
       \/ HandOut /\ pc' = "poll" /\ rebuild' = TRUE
       \/ pc' = "wait" /\ UNCHANGED <<rebuild, FrameIndex, owed>>
    /\ UNCHANGED <<run, window, SemaphoreIndex>>
    /\ UNCHANGED <<fence, acquired, rendered, queue, onScreen, presented>>

(* vkAcquireNextImageKHR succeeds, succeeds with VK_SUBOPTIMAL_KHR, or finds *)
(* the swap chain out of date; FramePresent() then returns at once.          *)
Acquire ==
    /\ pc = "acquire"
    /\ \/ HandOut /\ pc' = "wait" /\ UNCHANGED rebuild
       \/ HandOut /\ pc' = "poll" /\ rebuild' = TRUE
       \/ rebuild' = TRUE /\ pc' = "poll" /\ UNCHANGED <<FrameIndex, owed>>
    /\ UNCHANGED <<run, window, SemaphoreIndex>>
    /\ UNCHANGED <<fence, acquired, rendered, queue, onScreen, presented>>

(* Mutant of WaitForFence: the command buffer is recorded at once. *)
WaitForNoFence ==
    /\ pc = "wait"
    /\ fence' = fence \ {FrameIndex}
    /\ pc' = "record"
    /\ UNCHANGED <<loop, acquired, rendered, queue, owed, onScreen, presented>>

WaitForFence ==
    /\ pc = "wait"
    /\ FrameIndex \in fence
    /\ fence' = fence \ {FrameIndex}
    /\ pc' = "record"
    /\ UNCHANGED <<loop, acquired, rendered, queue, owed, onScreen, presented>>

(* The command buffer of the image is reset, recorded and submitted.         *)
RecordAndSubmit ==
    /\ pc = "record"
    /\ queue' = Append(queue, Command("draw", FrameIndex, SemaphoreIndex))
    /\ pc' = "present"
    /\ UNCHANGED <<loop, fence, acquired, rendered, owed, onScreen, presented>>

(* Mutant of Present: the index of the semaphores runs past the last pair. *)
PresentPastTheLast ==
    /\ pc = "present"
    /\ pc' = "poll"
    /\ queue' = Append(queue, Command("show", FrameIndex, SemaphoreIndex))
    /\ presented' = FrameIndex
    /\ SemaphoreIndex' = SemaphoreIndex + 1
    /\ UNCHANGED <<run, window, rebuild, FrameIndex, fence, acquired,
                   rendered, owed, onScreen>>

(* vkQueuePresentKHR takes the image, and may find the swap chain            *)
(* suboptimal; or out of date, with the image or without.                    *)
Present ==
    /\ pc = "present"
    /\ pc' = "poll"
    /\ \/ /\ queue' = Append(queue, Command("show", FrameIndex, SemaphoreIndex))
          /\ presented' = FrameIndex
          /\ \/ /\ SemaphoreIndex' = (SemaphoreIndex + 1) % ImageCount
                /\ UNCHANGED rebuild
             \/ rebuild' = TRUE /\ UNCHANGED SemaphoreIndex
       \/ rebuild' = TRUE /\ UNCHANGED <<queue, presented, SemaphoreIndex>>
    /\ UNCHANGED <<run, window, FrameIndex, fence, acquired, rendered, owed,
                   onScreen>>

Leave ==
    /\ pc = "poll" /\ ~run
    /\ pc' = "idle"
    /\ UNCHANGED <<loop, gpu>>

(* The end of renderLoop(): everything is destroyed when the device is idle. *)
Cleanup ==
    /\ pc = "idle"
    /\ queue = <<>>
    /\ pc' = "gone"
    /\ UNCHANGED <<loop, gpu>>

(* Every call goes through check_vk_result(), which aborts; so do those of   *)
(* CreateOrResizeWindow.                                                     *)
DeviceLost ==
    /\ \/ pc \in {"fonts", "fontsIdle", "acquire", "wait", "record", "present", "idle"}
       \/ pc = "resize" /\ rebuild /\ window # "empty"
    /\ pc' = "aborted"
    /\ UNCHANGED <<loop, gpu>>

-------------------------------------------------------------------------------
(* The GPU executes in order; the display shows what has been rendered and   *)
(* signals that an image is free once it shows another one.                  *)

Add(semaphores, pair, n) == [semaphores EXCEPT ![pair] = @ + n]

Upload ==
    /\ queue # <<>> /\ Head(queue).op = "upload"
    /\ queue' = Tail(queue)
    /\ UNCHANGED <<pc, loop, fence, acquired, rendered, owed, onScreen,
                   presented>>

Render ==
    /\ queue # <<>> /\ Head(queue).op = "draw"
    /\ LET command == Head(queue)
       IN  /\ acquired[command.pair] > 0
           /\ acquired' = [acquired EXCEPT ![command.pair] = @ - 1]
           /\ rendered' = Add(rendered, command.pair, 1)
           /\ fence' = fence \cup {command.image}
    /\ queue' = Tail(queue)
    /\ UNCHANGED <<pc, loop, owed, onScreen, presented>>

Show ==
    /\ queue # <<>> /\ Head(queue).op = "show"
    /\ LET command == Head(queue)
       IN  /\ rendered[command.pair] > 0
           /\ rendered' = [rendered EXCEPT ![command.pair] = @ - 1]
           /\ onScreen' = command.image
           /\ owed' = {[o EXCEPT !.toShow = @ /\ o.image # command.image] : o \in owed}
    /\ queue' = Tail(queue)
    /\ UNCHANGED <<pc, loop, fence, acquired, presented>>

Release ==
    /\ \E o \in owed :
           /\ ~o.toShow /\ o.image # onScreen
           /\ acquired' = Add(acquired, o.pair, 1)
           /\ owed' = owed \ {o}
    /\ UNCHANGED <<pc, loop, fence, rendered, queue, onScreen, presented>>

-------------------------------------------------------------------------------
Gui ==
    \/ InitSDL \/ SetupVulkan \/ CreateSurface \/ SetupVulkanWindow
    \/ UploadFonts \/ FontsUploaded
    \/ Poll \/ Resize \/ Draw \/ Acquire \/ WaitForFence \/ RecordAndSubmit \/ Present
    \/ Leave \/ Cleanup

Gpu == Upload \/ Render \/ Show

Next == Gui \/ DeviceLost \/ Gpu \/ Release

(* The GUI thread runs on its own; the GPU executes what it can and the      *)
(* display goes on, which is what Vulkan promises of a device not lost.      *)
Fairness == WF_vars(Gui) /\ WF_vars(Gpu) /\ WF_vars(Release)

Spec == Init /\ [][Next]_vars /\ Fairness

-------------------------------------------------------------------------------
TypeOK ==
    /\ pc \in {"SDL", "SetupVulkan", "surface", "SetupVulkanWindow", "fonts",
               "fontsIdle", "poll", "resize", "draw", "acquire", "wait", "record",
               "present", "idle", "gone", "aborted", "unready"}
    /\ {run, rebuild} \subseteq BOOLEAN
    /\ window \in {"shown", "minimised", "empty"}
    /\ {FrameIndex, SemaphoreIndex} \subseteq Images
    /\ fence \subseteq Images
    /\ {acquired, rendered} \subseteq [Images -> Nat]
    /\ queue \in Seq([op : {"upload", "draw", "show"}, image : Images,
                      pair : Images \cup {NoImage}])
    /\ owed \subseteq [image : Images, pair : Images, toShow : BOOLEAN]
    /\ {onScreen, presented} \subseteq Images \cup {NoImage}

(* No semaphore is signalled while an earlier signal of it has not been      *)
(* waited for, although pairs are taken in turn and images in any order, and *)
(* frames are given up between acquire and present (FrameRender,             *)
(* FramePresent).  The call itself is allowed to come too early.             *)
SemaphoresSignalledOnce ==
    \A pair \in Images : acquired[pair] <= 1 /\ rendered[pair] <= 1

(* What the GPU has yet to execute is not touched: a command buffer is not   *)
(* recorded again while it is in the queue, and nothing is in the queue when *)
(* the device is destroyed (the waits of FrameRender, setup and renderLoop). *)
GpuLeftAlone ==
    /\ pc = "record" => ~InQueue("upload", FrameIndex) /\ ~InQueue("draw", FrameIndex)
    /\ pc = "gone" => queue = <<>>

(* The GUI never hangs in the middle of a frame or of the end: whatever the  *)
(* window and the swap chain do, it comes back to its events or it ends.     *)
Ended == pc \in {"gone", "aborted", "unready"}

FramesGoOn == []<>(pc = "poll" \/ Ended)
===============================================================================
